---- MODULE Spec2Model ----
(***************************************************************************)
(* A model of the av ingest orchestrator (src/av/pipeline/ingest.py), the  *)
(* artifact store it writes (src/av/db) and the media helpers it calls     *)
(* (src/av/pipeline/ffmpeg.py, src/av/pipeline/cascade.py).                *)
(*                                                                         *)
(* ingest_video is a synchronous function; the model follows one call at a *)
(* time through its steps (pc), drawing the outcome of every external      *)
(* collaborator (ffprobe, ffmpeg, the inference capabilities, the store)   *)
(* from the outcomes that collaborator can produce.                        *)
(***************************************************************************)
EXTENDS Integers, Sequences, FiniteSets, Bags, TLC

VARIABLES
    db,      \* the store: [videos, artifacts, embeddings], sets of rows
    nextId,  \* uuid4(): the next fresh identifier
    tmpfs,   \* temporary files and directories that exist on disk
    nextTmp, \* tempfile.mktemp / mkdtemp: the next fresh temporary name
    pc,      \* position of the current ingest_video call
    args,    \* arguments of the current call (path, flags, config)
    loc,     \* local variables of the current call
    result,  \* the dict returned by the call, status "none" while running
    raised,  \* the exception raised by the call, kind "none" if none
    hist     \* what the current call has done so far (observation only)

vars == <<db, nextId, tmpfs, nextTmp, pc, args, loc, result, raised, hist>>

-----------------------------------------------------------------------------
(* Bounds of the model *)

\* most transcript segments one transcription returns
MaxSegs == 1
\* the max_frames argument passed to ingest_video
MaxFramesArg == 1
\* longest duration handed to run_cascade on its own, in ticks
MaxDuration == 5
\* longest chunk duration handed to run_cascade on its own, in seconds
MaxChunkSec == 2
\* most chunks _split_audio cuts an audio into
MaxAudioChunks == 2
\* longest audio chunk, in ticks
MaxChunkLen == 2

-----------------------------------------------------------------------------
(* Program constants *)

DEFAULT_CHUNK_DURATION_SEC == 30
batch_size == 100

\* fps_sample, the default 0.5, as a fraction
FpsNum == 1
FpsDen == 2

-----------------------------------------------------------------------------
(* The files the caller may name.  Each existing file has content (the     *)
(* prefix bytes and the size that file_hash digests) and the duration that *)
(* ffprobe reports for it.                                                 *)

Paths == {"a.mp4", "b.mp4", "missing.mp4"}

PathExists(p) == p # "missing.mp4"

FileContent(p) ==
    CASE p = "a.mp4"      -> [prefix |-> "AAAA", size |-> 256]
      [] p = "b.mp4"      -> [prefix |-> "BBBB", size |-> 4096]
      [] OTHER            -> [prefix |-> "", size |-> 0]

ProbedDuration(p) ==
    CASE p = "b.mp4" -> 20
      [] OTHER       -> 1

\* file_hash: a digest of (first 64KB, size); equal content gives an equal
\* digest and different (prefix, size) pairs give different digests
file_hash(p) == <<FileContent(p).prefix, FileContent(p).size>>

NoHash == <<"", 0>>

-----------------------------------------------------------------------------
(* The store *)

EmptyStore == [videos |-> {}, artifacts |-> {}, embeddings |-> {}]

\* VideoRecord as ingest_video builds it
VideoRecord(id, path, fhash, duration) ==
    [id |-> id, file_hash |-> fhash, filename |-> path,
     duration_sec |-> duration, status |-> "pending", error_message |-> "NULL"]

\* ArtifactRecord; end_sec = -1 stands for None
ArtifactRecord(id, video_id, type, start_sec, end_sec) ==
    [id |-> id, video_id |-> video_id, type |-> type,
     start_sec |-> start_sec, end_sec |-> end_sec]

\* a lookup that finds only the rows marked complete
get_video_by_hash_complete_only(store, fhash) ==
    IF \E v \in store.videos : v.file_hash = fhash /\ v.status = "complete"
    THEN (CHOOSE v \in store.videos : v.file_hash = fhash /\ v.status = "complete").id
    ELSE 0

\* Repository.get_video_by_hash: the id of the row with that hash, 0 if none
get_video_by_hash(store, fhash) ==
    IF \E v \in store.videos : v.file_hash = fhash
    THEN (CHOOSE v \in store.videos : v.file_hash = fhash).id
    ELSE 0

\* Repository.insert_video
insert_video(store, video) ==
    [store EXCEPT !.videos = @ \cup {video}]

\* a delete that drops the video row only, as without foreign-key cascade
delete_video_no_cascade(store, video_id) ==
    [store EXCEPT !.videos = {v \in @ : v.id # video_id}]

\* Repository.delete_video with the schema's ON DELETE CASCADE (foreign keys
\* are switched on by get_connection)
delete_video(store, video_id) ==
    LET gone == {a \in store.artifacts : a.video_id = video_id}
        goneIds == {a.id : a \in gone}
    IN [store EXCEPT
           !.videos     = {v \in @ : v.id # video_id},
           !.artifacts  = @ \ gone,
           !.embeddings = {e \in @ : e.artifact_id \notin goneIds}]

\* a status update without its WHERE clause: every row is written
update_video_status_every_row(store, video_id, status, error_message) ==
    [store EXCEPT !.videos =
        {[v EXCEPT !.status = status, !.error_message = error_message] : v \in @}]

\* Repository.update_video_status: sets status and error_message together
update_video_status(store, video_id, status, error_message) ==
    [store EXCEPT !.videos =
        {IF v.id = video_id
         THEN [v EXCEPT !.status = status, !.error_message = error_message]
         ELSE v : v \in @}]

\* Repository.insert_artifacts_batch
insert_artifacts_batch(store, arts) ==
    [store EXCEPT !.artifacts = @ \cup {arts[i] : i \in 1..Len(arts)}]

\* a batch insert that stores the first item only
insert_embeddings_batch_first_only(store, artifact_ids, firstId) ==
    [store EXCEPT !.embeddings = @ \cup
        {[id |-> firstId + i - 1, artifact_id |-> artifact_ids[i]] :
            i \in 1..(IF Len(artifact_ids) > 0 THEN 1 ELSE 0)}]

\* Repository.insert_embeddings_batch: one row, with a fresh uuid, per item
insert_embeddings_batch(store, artifact_ids, firstId) ==
    [store EXCEPT !.embeddings = @ \cup
        {[id |-> firstId + i - 1, artifact_id |-> artifact_ids[i]] :
            i \in 1..Len(artifact_ids)}]

-----------------------------------------------------------------------------
(* State of a call *)

NoResult == [status |-> "none"]
NoError  == [kind |-> "none"]

NoArgs ==
    [path |-> "missing.mp4", captions |-> FALSE, frame_captions |-> FALSE,
     dense_vision |-> FALSE, no_embed |-> FALSE, force |-> FALSE,
     dry_run |-> FALSE, transcribe_model |-> FALSE, embed_model |-> FALSE]

\* the locals of ingest_video; 0 stands for None in existing, video_id,
\* audio_path and frames_dir; frames is the number of frame files found
NoLocals ==
    [fhash |-> NoHash, existing |-> 0, video_id |-> 0, duration_sec |-> 0,
     artifacts_count |-> 0, audio_path |-> 0, frames_dir |-> 0, frames |-> 0,
     warnings |-> <<>>,
     transcript_artifacts |-> <<>>, caption_artifacts |-> <<>>,
     cascade_artifacts |-> <<>>, dense_artifacts |-> <<>>,
     exc |-> "none"]

NoHist ==
    [store0 |-> EmptyStore,     \* the store when the call began
     probed |-> FALSE,          \* get_video_info was called on the path
     capCalled |-> {},          \* capabilities that were called
     capFailed |-> {},          \* capabilities of which a call failed
     stageFailed |-> {},        \* stages that ended in their except clause
     ran |-> {},                \* stages that were entered
     created |-> {},            \* temporary audio files / frame dirs created
     deleted |-> 0,             \* id of the video removed by --force
     inserted |-> FALSE,        \* the Video row was inserted
     statusWrites |-> 0]        \* update_video_status calls

\* The store a Repository opens is the database file earlier runs have
\* written.  StoredA is what an earlier ingest of a.mp4 leaves there when it
\* transcribes one segment and embeds it: the video row (uuid 1) marked
\* complete, its transcript artifact (uuid 2) and that artifact's embedding
\* (uuid 3), written by the same repository operations, in ingest's order.
StoredA ==
    LET v == VideoRecord(1, "a.mp4", file_hash("a.mp4"), ProbedDuration("a.mp4"))
        s1 == insert_video(EmptyStore, v)
        s2 == insert_artifacts_batch(s1, <<ArtifactRecord(2, 1, "transcript", 0, 5)>>)
        s3 == insert_embeddings_batch(s2, <<2>>, 3)
    IN update_video_status(s3, 1, "complete", "NULL")

\* the largest uuid a store holds
MaxUuid(store) ==
    LET used == {v.id : v \in store.videos} \cup {a.id : a \in store.artifacts}
                   \cup {e.id : e \in store.embeddings} \cup {0}
    IN CHOOSE m \in used : \A x \in used : x <= m

Init ==
    /\ db \in {EmptyStore, StoredA}
    /\ nextId = MaxUuid(db) + 1
    /\ tmpfs = {}
    /\ nextTmp = 1
    /\ pc = "idle"
    /\ args = NoArgs
    /\ loc = NoLocals
    /\ result = NoResult
    /\ raised = NoError
    /\ hist = NoHist

-----------------------------------------------------------------------------
(* ingest_video, lines 111-117: the caller names a path and the options;   *)
(* a path that does not exist raises before anything else happens.         *)

Begin ==
    /\ pc = "idle"
    /\ \E p \in Paths, cap, fc, dv, ne, fo, dr, tm, em \in BOOLEAN :
        /\ args' = [path |-> p, captions |-> cap, frame_captions |-> fc,
                    dense_vision |-> dv, no_embed |-> ne, force |-> fo,
                    dry_run |-> dr, transcribe_model |-> tm, embed_model |-> em]
        /\ IF PathExists(p)
           THEN /\ pc' = "hash"
                /\ raised' = NoError
           ELSE /\ pc' = "raised"
                /\ raised' = [kind |-> "IngestError", cause |-> "File not found"]
    /\ loc' = NoLocals
    /\ result' = NoResult
    /\ hist' = [NoHist EXCEPT !.store0 = db]
    /\ UNCHANGED <<db, nextId, tmpfs, nextTmp>>

\* the skip test with the force flag read the wrong way round
Skips_force_inverted(existing, force) == existing # 0 /\ force

\* line 122: the call is skipped when the fingerprint is stored and force is off
Skips(existing, force) == existing # 0 /\ ~force

\* the dict returned for a skipped call, lines 124-129
SkippedDict(existing) ==
    [status |-> "skipped", video_id |-> existing, reason |-> "already_ingested"]

(* lines 119-133: hash + idempotency check; --force deletes the stored row *)
Idempotency ==
    /\ pc = "hash"
    /\ LET fhash == file_hash(args.path)
           existing == get_video_by_hash(db, fhash)
       IN /\ loc' = [loc EXCEPT !.fhash = fhash, !.existing = existing]
          /\ IF Skips(existing, args.force)
             THEN /\ pc' = "returned"
                  /\ result' = SkippedDict(existing)
                  /\ UNCHANGED <<db, hist>>
             ELSE /\ pc' = "probe"
                  /\ result' = result
                  /\ IF existing # 0 /\ args.force
                     THEN /\ db' = delete_video(db, existing)
                          /\ hist' = [hist EXCEPT !.deleted = existing]
                     ELSE UNCHANGED <<db, hist>>
    /\ UNCHANGED <<nextId, tmpfs, nextTmp, args, raised>>

\* the preview returned under dry_run, lines 166-175
DryRunDict(video_id, a) ==
    [status |-> "dry_run", video_id |-> video_id,
     would_caption |-> a.captions, would_embed |-> ~a.no_embed,
     would_dense_vision |-> a.dense_vision]

(* lines 135-175: probe the media, draw the video id, build the record;    *)
(* dry_run returns the preview here.  A probe failure (FFmpegError) is     *)
(* raised to the caller as it is: no row exists yet.                       *)
Probe ==
    /\ pc = "probe"
    /\ \E probeOk \in BOOLEAN :
        IF ~probeOk
        THEN /\ pc' = "raised"
             /\ raised' = [kind |-> "FFmpegError", cause |-> "ffprobe failed"]
             /\ UNCHANGED <<nextId, loc, result>>
        ELSE /\ nextId' = nextId + 1
             /\ loc' = [loc EXCEPT !.video_id = nextId,
                                   !.duration_sec = ProbedDuration(args.path)]
             /\ raised' = raised
             /\ IF args.dry_run
                THEN /\ pc' = "returned"
                     /\ result' = DryRunDict(nextId, args)
                ELSE /\ pc' = "insert"
                     /\ result' = result
    /\ hist' = [hist EXCEPT !.probed = TRUE]
    /\ UNCHANGED <<db, tmpfs, nextTmp, args>>

(* line 186: repo.insert_video(video), outside the try block; the UNIQUE   *)
(* constraint on file_hash turns a duplicate into DatabaseError.           *)
InsertVideo ==
    /\ pc = "insert"
    /\ IF \E v \in db.videos : v.file_hash = loc.fhash \/ v.id = loc.video_id
       THEN /\ pc' = "raised"
            /\ raised' = [kind |-> "DatabaseError", cause |-> "Video already exists"]
            /\ UNCHANGED <<db, hist>>
       ELSE /\ pc' = "transcribe"
            /\ db' = insert_video(db, VideoRecord(loc.video_id, args.path,
                                                  loc.fhash, loc.duration_sec))
            /\ hist' = [hist EXCEPT !.inserted = TRUE]
            /\ raised' = raised
    /\ UNCHANGED <<nextId, tmpfs, nextTmp, args, loc, result>>

-----------------------------------------------------------------------------
(* The best-effort stages, lines 193-392.  Each stage runs inside its own  *)
(* try/except Exception; its handler appends a warning and the call goes   *)
(* on to the next stage.  A stage is an operator from the state of the     *)
(* call (store, uuid and temp-name counters, temp files, locals) and the   *)
(* outcome of the collaborators it calls to the state it leaves.           *)

Cur == [db |-> db, nextId |-> nextId, tmpfs |-> tmpfs, nextTmp |-> nextTmp,
        loc |-> loc, hist |-> hist]

Commit(s) ==
    /\ db' = s.db
    /\ nextId' = s.nextId
    /\ tmpfs' = s.tmpfs
    /\ nextTmp' = s.nextTmp
    /\ loc' = s.loc
    /\ hist' = s.hist

\* warnings.append(msg)
Warn(l, msg) == [l EXCEPT !.warnings = Append(@, msg)]

\* a stage boundary that lets the failure through instead of recording it
StageExcept_propagates(s, stage, msg) ==
    [s EXCEPT !.loc.exc = msg, !.hist.stageFailed = @ \cup {stage}]

\* a stage's "except Exception as e" clause (lines 235-238, 261-264,
\* 298-301, 358-361, 389-392): the failure becomes a warning
StageExcept(s, stage, msg) ==
    [s EXCEPT !.loc = Warn(@, msg), !.hist.stageFailed = @ \cup {stage}]

\* where the call goes after a stage: on, unless an exception is in flight
AfterStage(s, nextPc) == IF s.loc.exc = "none" THEN nextPc ELSE "fatal"

Entered(s, stage) == [s EXCEPT !.hist.ran = @ \cup {stage}]

Called(s, cap, failed) ==
    [s EXCEPT !.hist.capCalled = @ \cup {cap},
              !.hist.capFailed = IF failed THEN @ \cup {cap} ELSE @]

\* a temp file or directory comes to exist on disk
MakeTmp(s, t) ==
    [s EXCEPT !.tmpfs = @ \cup {t}, !.nextTmp = @ + 1, !.hist.created = @ \cup {t}]

\* the n records a stage builds, ids drawn from uuid4 one after the other
NewArtifacts(n, firstId, video_id, type, start_sec, end_sec) ==
    [i \in 1..n |-> ArtifactRecord(firstId + i - 1, video_id, type, start_sec, end_sec)]

AudioTmp(n) == [kind |-> "audio", n |-> n]
FramesTmp(n) == [kind |-> "frames", n |-> n]

\* the start and end a transcription response can carry for a segment
SegmentSpans == {[start_sec |-> 0, end_sec |-> 5], [start_sec |-> 5, end_sec |-> 0]}
NoSpan == [start_sec |-> 0, end_sec |-> 0]

\* What the collaborators of step 4 can do.  extract_audio (ffmpeg.py 80-98)
\* names a temp file with mktemp and lets ffmpeg write it: when ffmpeg is
\* missing no file appears, when ffmpeg fails or times out a partial file may
\* be left, and either way the exception leaves audio_path unassigned.  Then
\* OpenAITranscriber(config) may raise (client_error), transcribe may raise
\* (api_error) or return n segments.
\* The segments come back with the start and end the response carries
\* (openai.py 177-183): nothing in the provider or in step 4 compares them.
TranscribeOutcomes(a) ==
    IF ~a.transcribe_model
    THEN {[audio |-> "unused", tr |-> "unused", n |-> 0, span |-> NoSpan]}
    ELSE {[audio |-> "ffmpeg_missing", tr |-> "unused", n |-> 0, span |-> NoSpan],
          [audio |-> "ffmpeg_failed", tr |-> "unused", n |-> 0, span |-> NoSpan],
          [audio |-> "ok", tr |-> "client_error", n |-> 0, span |-> NoSpan],
          [audio |-> "ok", tr |-> "api_error", n |-> 0, span |-> NoSpan],
          [audio |-> "ok", tr |-> "ok", n |-> 0, span |-> NoSpan]}
         \cup {[audio |-> "ok", tr |-> "ok", n |-> n, span |-> sp] :
                    n \in 1..MaxSegs, sp \in SegmentSpans}

\* a step 4 that extracts the audio before it looks at the configuration
transcribe_stage_extracts_first(s0, a, o) ==
    LET s == MakeTmp(Entered(s0, "transcribe"), AudioTmp(s0.nextTmp))
        s1 == [s EXCEPT !.loc.audio_path = s0.nextTmp]
    IN IF ~a.transcribe_model
       THEN [s1 EXCEPT !.loc = Warn(@, "Transcription disabled")]
       ELSE StageExcept(s1, "transcribe", "Transcription skipped")

\* Step 4, lines 199-242: extract audio and transcribe
transcribe_stage(s0, a, o) ==
    LET s == Entered(s0, "transcribe")
        audio == AudioTmp(s.nextTmp)
    IN IF ~a.transcribe_model
       THEN \* line 240: transcription disabled
            [s EXCEPT !.loc = Warn(@, "Transcription disabled")]
       ELSE IF o.audio = "ffmpeg_missing"
       THEN StageExcept(s, "transcribe", "Transcription skipped")
       ELSE IF o.audio = "ffmpeg_failed"
       THEN StageExcept(MakeTmp(s, audio), "transcribe", "Transcription skipped")
       ELSE LET s1 == [MakeTmp(s, audio) EXCEPT !.loc.audio_path = s.nextTmp]
            IN IF o.tr = "client_error"
               THEN StageExcept(s1, "transcribe", "Transcription skipped")
               ELSE IF o.tr = "api_error"
               THEN StageExcept(Called(s1, "transcribe", TRUE),
                                "transcribe", "Transcription skipped")
               ELSE LET arts == NewArtifacts(o.n, s.nextId, s.loc.video_id,
                                             "transcript", o.span.start_sec,
                                             o.span.end_sec)
                        s2 == Called(s1, "transcribe", FALSE)
                    IN [s2 EXCEPT
                          !.loc.transcript_artifacts = arts,
                          !.loc.artifacts_count = @ + o.n,
                          !.db = IF o.n > 0 THEN insert_artifacts_batch(@, arts) ELSE @,
                          !.nextId = @ + o.n]

TranscribeStage ==
    /\ pc = "transcribe"
    /\ \E o \in TranscribeOutcomes(args) :
        LET s == transcribe_stage(Cur, args, o)
        IN Commit(s) /\ pc' = AfterStage(s, "cascade")
    /\ UNCHANGED <<args, result, raised>>

-----------------------------------------------------------------------------
(* The caption cascade, cascade.py 122-253 *)

Min(a, b) == IF a <= b THEN a ELSE b
Max(a, b) == IF a >= b THEN a ELSE b

\* math.ceil(duration_sec / chunk_duration_sec) on whole seconds
CeilDiv(a, b) == (a + b - 1) \div b

\* line 144
NumChunks(duration_sec, chunk_duration_sec) ==
    Max(1, CeilDiv(duration_sec, chunk_duration_sec))

\* line 156
ChunkStart(chunk_idx, chunk_duration_sec) == chunk_idx * chunk_duration_sec

\* a chunk end that is not clamped to the duration
ChunkEnd_unclamped(chunk_idx, chunk_duration_sec, duration_sec) ==
    chunk_idx * chunk_duration_sec + chunk_duration_sec

\* line 157
ChunkEnd(chunk_idx, chunk_duration_sec, duration_sec) ==
    Min(ChunkStart(chunk_idx, chunk_duration_sec) + chunk_duration_sec, duration_sec)

\* What can happen to one chunk (lines 163-188):
\*   extract_error  _extract_chunk_frames raises after its mkdtemp
\*   noframes       _extract_chunk_frames returns [] (no frame could be cut)
\*   caption_error  frames were cut, captioner.caption_chunk raises
\*   static         the reply is empty or the STATIC sentinel
\*   caption        the reply is a caption
ChunkOutcomes == {"extract_error", "noframes", "caption_error", "static", "caption"}
Layer1Outcomes == {"error", "no_events", "summary"}
Layer2Outcomes == {"error", "empty", "report"}

ChunkTmp(n) == [kind |-> "chunk", n |-> n]

\* a loop that a failed chunk ends: no later chunk yields anything
ChunkResult_stops_at_failure(co, chunk_idx, chunk_duration_sec, duration_sec) ==
    IF \E j \in 0..(chunk_idx - 1) : co[j] \in {"extract_error", "caption_error"}
    THEN "noframes"
    ELSE co[chunk_idx]

\* _extract_chunk_frames returns [] when the chunk is empty (lines 64-66),
\* whatever ffmpeg would have done
ChunkResult(co, chunk_idx, chunk_duration_sec, duration_sec) ==
    IF ChunkEnd(chunk_idx, chunk_duration_sec, duration_sec)
          - ChunkStart(chunk_idx, chunk_duration_sec) <= 0
    THEN "noframes"
    ELSE co[chunk_idx]

\* the layer-0 artifacts after the first k chunks (lines 155-188): a chunk
\* whose reply is a caption appends one record spanning the chunk
Layer0(k, video_id, duration_sec, chunk_duration_sec, firstId, co) ==
    LET res(i) == ChunkResult(co, i, chunk_duration_sec, duration_sec)
        layer0[j \in 0..k] ==
            IF j = 0 THEN <<>>
            ELSE IF res(j - 1) = "caption"
                 THEN Append(layer0[j - 1],
                             ArtifactRecord(firstId + Len(layer0[j - 1]), video_id,
                                            "caption",
                                            ChunkStart(j - 1, chunk_duration_sec),
                                            ChunkEnd(j - 1, chunk_duration_sec,
                                                     duration_sec)))
                 ELSE layer0[j - 1]
    IN layer0[k]

\* a layer 1 that is attempted whatever layer 0 holds
Layer1Runs_always(l0) == TRUE

\* lines 190-192: layer 1 is attempted only when layer 0 is not empty
Layer1Runs(l0) == l0 # <<>>

\* line 226: layer 2 is attempted only when layer 1 is not empty
Layer2Runs(l1) == l1 # <<>>

\* lines 194-223: the summary record, when summarize returns a summary
Layer1(l0, l1o, id, video_id, duration_sec) ==
    IF Layer1Runs(l0) /\ l1o = "summary"
    THEN <<ArtifactRecord(id, video_id, "summary", 0, duration_sec)>>
    ELSE <<>>

\* lines 226-247: the report record, when summarize returns a report
Layer2(l1, l2o, id, video_id, duration_sec) ==
    IF Layer2Runs(l1) /\ l2o = "report"
    THEN <<ArtifactRecord(id, video_id, "report", 0, duration_sec)>>
    ELSE <<>>

\* a run_cascade that lets a failed layer-1 call through
CascadeRaises_on_layer1(clientOk, l0, l1o, l1, l2o) ==
    ~clientOk \/ (l0 # <<>> /\ l1o = "error")

\* an exception leaves run_cascade only from outside its inner try blocks:
\* OpenAICaptioner(config) of line 145
CascadeRaises(clientOk, l0, l1o, l1, l2o) == ~clientOk

\* run_cascade: clientOk is whether OpenAICaptioner(config) could be built,
\* co the outcome of each chunk, l1o and l2o those of the two summarize calls.
\* The result carries the three layers, whether the call raised, the temp
\* directories it made and those it left on disk, the capabilities that
\* were called and that failed, and the summarize calls that were made.
run_cascade(video_id, duration_sec, chunk_duration_sec, firstId, firstTmp, clientOk, co, l1o, l2o) ==
    LET c == chunk_duration_sec
        num_chunks == NumChunks(duration_sec, c)
        res(i) == ChunkResult(co, i, c, duration_sec)
        l0 == Layer0(num_chunks, video_id, duration_sec, c, firstId, co)
        l1 == Layer1(l0, l1o, firstId + Len(l0), video_id, duration_sec)
        l2 == Layer2(l1, l2o, firstId + Len(l0) + 1, video_id, duration_sec)
        chunks == 0..(num_chunks - 1)
        \* start and end of every chunk the loop of line 155 goes through
        spans == [i \in 1..num_chunks |->
                    <<ChunkStart(i - 1, c), ChunkEnd(i - 1, c, duration_sec)>>]
        \* temp_dirs holds the directory of a chunk only when frames came back
        registered == {i \in chunks : res(i) \in {"caption_error", "static", "caption"}}
    IN IF ~clientOk
       THEN [raised |-> TRUE, l0 |-> <<>>, l1 |-> <<>>, l2 |-> <<>>,
             created |-> {}, left |-> {}, called |-> {}, failed |-> {}, nTmp |-> 0,
             summarize |-> {}, spans |-> <<>>]
       ELSE IF CascadeRaises(clientOk, l0, l1o, l1, l2o)
       THEN [raised |-> TRUE, l0 |-> <<>>, l1 |-> <<>>, l2 |-> <<>>,
             created |-> {ChunkTmp(firstTmp + i) : i \in chunks},
             left    |-> {ChunkTmp(firstTmp + i) : i \in chunks \ registered},
             called |-> {}, failed |-> {}, nTmp |-> num_chunks, summarize |-> {},
             spans |-> spans]
       ELSE [raised |-> FALSE, l0 |-> l0, l1 |-> l1, l2 |-> l2,
             created |-> {ChunkTmp(firstTmp + i) : i \in chunks},
             left    |-> {ChunkTmp(firstTmp + i) : i \in chunks \ registered},
             called  |-> (IF registered # {} THEN {"caption"} ELSE {})
                         \cup (IF Layer1Runs(l0) THEN {"chat"} ELSE {}),
             failed  |-> (IF \E i \in chunks : res(i) = "caption_error"
                          THEN {"caption"} ELSE {})
                         \cup (IF (Layer1Runs(l0) /\ l1o = "error")
                                  \/ (Layer2Runs(l1) /\ l2o = "error")
                               THEN {"chat"} ELSE {}),
             nTmp |-> num_chunks,
             summarize |-> (IF Layer1Runs(l0) THEN {"layer1"} ELSE {})
                           \cup (IF Layer2Runs(l1) THEN {"layer2"} ELSE {}),
             spans |-> spans]

\* What the collaborators of the cascade can do; an outcome that cannot
\* matter (a summary of no captions, a report of no summary) is "unused"
CascadeOutcomes(a, duration_sec) ==
    IF ~a.captions
    THEN {[clientOk |-> TRUE, co |-> <<>>, l1o |-> "unused", l2o |-> "unused"]}
    ELSE LET chunks == 0..(NumChunks(duration_sec, DEFAULT_CHUNK_DURATION_SEC) - 1)
             some(co) == \E i \in chunks : co[i] = "caption"
         IN {[clientOk |-> FALSE, co |-> [i \in chunks |-> "noframes"],
              l1o |-> "unused", l2o |-> "unused"]}
            \cup {[clientOk |-> TRUE, co |-> co, l1o |-> "unused", l2o |-> "unused"] :
                    co \in {c \in [chunks -> ChunkOutcomes] : ~some(c)}}
            \cup {[clientOk |-> TRUE, co |-> co, l1o |-> l1o, l2o |-> "unused"] :
                    co \in {c \in [chunks -> ChunkOutcomes] : some(c)},
                    l1o \in Layer1Outcomes \ {"summary"}}
            \cup {[clientOk |-> TRUE, co |-> co, l1o |-> "summary", l2o |-> l2o] :
                    co \in {c \in [chunks -> ChunkOutcomes] : some(c)},
                    l2o \in Layer2Outcomes}

\* Step 5, lines 244-264: the cascade, when captions is set
cascade_stage(s0, a, o) ==
    IF ~a.captions THEN s0
    ELSE LET s == Entered(s0, "cascade")
             r == run_cascade(s.loc.video_id, s.loc.duration_sec,
                              DEFAULT_CHUNK_DURATION_SEC, s.nextId,
                              s.nextTmp, o.clientOk, o.co, o.l1o, o.l2o)
             cascade_artifacts == r.l0 \o r.l1 \o r.l2
             s1 == [s EXCEPT !.tmpfs = @ \cup r.left,
                             !.nextTmp = @ + r.nTmp,
                             !.hist.created = @ \cup r.created,
                             !.hist.capCalled = @ \cup r.called,
                             !.hist.capFailed = @ \cup r.failed]
         IN IF r.raised
            THEN StageExcept(s1, "cascade", "Cascade captioning skipped")
            ELSE IF cascade_artifacts # <<>>
            THEN [s1 EXCEPT
                    !.db = insert_artifacts_batch(@, cascade_artifacts),
                    !.nextId = @ + Len(cascade_artifacts),
                    !.loc.cascade_artifacts = cascade_artifacts,
                    !.loc.artifacts_count = @ + Len(cascade_artifacts),
                    !.loc.caption_artifacts = @ \o cascade_artifacts]
            ELSE s1

CascadeStage ==
    /\ pc = "cascade"
    /\ \E o \in CascadeOutcomes(args, loc.duration_sec) :
        LET s == cascade_stage(Cur, args, o)
        IN Commit(s) /\ pc' = AfterStage(s, "frames")
    /\ UNCHANGED <<args, result, raised>>

-----------------------------------------------------------------------------
(* Per-frame captioning and dense vision, lines 266-361 *)

\* int(meta.duration_sec * fps_sample) capped by max_frames, ffmpeg.py 114-115
TotalFrames(duration_sec, max_frames) ==
    Min((duration_sec * FpsNum) \div FpsDen, max_frames)

\* extract_frames (ffmpeg.py 101-143): the directory is always made; then the
\* probe raises (ex = "probe_error"), ffmpeg raises ("ffmpeg_failed"), or
\* ffmpeg ends and n frame files are found ("ok").  The result says whether
\* the call raised and how many frames it returned
extract_frames(duration_sec, max_frames, ex, n) ==
    IF ex = "probe_error" THEN [raised |-> TRUE, frames |-> 0]
    ELSE IF TotalFrames(duration_sec, max_frames) <= 0
    THEN [raised |-> FALSE, frames |-> 0]
    ELSE IF ex = "ffmpeg_failed" THEN [raised |-> TRUE, frames |-> 0]
    ELSE [raised |-> FALSE,
          frames |-> Min(Min(n, TotalFrames(duration_sec, max_frames)), max_frames)]

\* the elements of a set of numbers in increasing order
RECURSIVE SortedSeq(_)
SortedSeq(S) ==
    IF S = {} THEN <<>>
    ELSE LET m == CHOOSE x \in S : \A y \in S : x <= y
         IN <<m>> \o SortedSeq(S \ {m})

Range(q) == {q[i] : i \in 1..Len(q)}

\* timestamp of the frame file frame_%06d.jpg numbered k: (k - 1) / fps_sample
FrameTimestamp(k) == ((k - 1) * FpsDen) \div FpsNum

\* the records built from the captions caption_frames returned: one per frame
\* whose call succeeded (okF), in frame order
CaptionRecords(okF, firstId, video_id, type) ==
    LET q == SortedSeq(okF)
    IN [i \in 1..Len(q) |->
          ArtifactRecord(firstId + i - 1, video_id, type, FrameTimestamp(q[i]), -1)]

\* what extract_frames can meet: [ex, n] with n the frame files found
ExtractChoices(duration_sec, max_frames) ==
    {[ex |-> "probe_error", n |-> 0]}
    \cup (IF TotalFrames(duration_sec, max_frames) <= 0
          THEN {[ex |-> "ok", n |-> 0]}
          ELSE {[ex |-> "ffmpeg_failed", n |-> 0]}
               \cup {[ex |-> "ok", n |-> n] :
                       n \in 0..TotalFrames(duration_sec, max_frames)})

\* what captioning `frames` frames can meet: OpenAICaptioner(config) raises
\* (clientOk false), or caption_frames returns the captions of the frames okF
\* whose call succeeded (it swallows the failure of every other frame)
CaptionChoices(frames) ==
    IF frames = 0 THEN {[clientOk |-> TRUE, okF |-> {}]}
    ELSE {[clientOk |-> FALSE, okF |-> {}]}
         \cup {[clientOk |-> TRUE, okF |-> F] : F \in SUBSET (1..frames)}

FramesOutcomes(a, duration_sec) ==
    IF ~a.frame_captions
    THEN {[ex |-> "unused", n |-> 0, clientOk |-> TRUE, okF |-> {}]}
    ELSE UNION {
           LET r == extract_frames(duration_sec, MaxFramesArg, e.ex, e.n)
           IN {[ex |-> e.ex, n |-> e.n, clientOk |-> c.clientOk, okF |-> c.okF] :
                 c \in CaptionChoices(IF r.raised THEN 0 ELSE r.frames)}
           : e \in ExtractChoices(duration_sec, MaxFramesArg)}

\* a frame-caption step that counts the cascade's artifacts a second time
frames_stage_counts_all(s0, a, o) ==
    IF ~a.frame_captions THEN s0
    ELSE LET s == MakeTmp(Entered(s0, "frames"), FramesTmp(s0.nextTmp))
             r == extract_frames(s.loc.duration_sec, MaxFramesArg, o.ex, o.n)
             s1 == [s EXCEPT !.loc.frames_dir = s0.nextTmp, !.loc.frames = r.frames]
             caps == CaptionRecords(o.okF, s.nextId, s.loc.video_id, "caption")
             caption_artifacts == s.loc.caption_artifacts \o caps
             fc_arts == SelectSeq(caption_artifacts,
                            LAMBDA x : x \notin Range(s.loc.cascade_artifacts))
         IN IF r.raised
            THEN StageExcept(s, "frames", "Frame captioning skipped")
            ELSE IF r.frames = 0
            THEN s
            ELSE IF ~o.clientOk
            THEN StageExcept(s1, "frames", "Frame captioning skipped")
            ELSE [Called(s1, "caption", o.okF # 1..r.frames) EXCEPT
                    !.loc.caption_artifacts = caption_artifacts,
                    !.loc.artifacts_count = @ + Len(caption_artifacts),
                    !.db = IF fc_arts # <<>> THEN insert_artifacts_batch(@, fc_arts)
                           ELSE @,
                    !.nextId = @ + Len(caps)]

\* lines 266-301: legacy per-frame captions, when frame_captions is set
frames_stage(s0, a, o) ==
    IF ~a.frame_captions THEN s0
    ELSE LET s == MakeTmp(Entered(s0, "frames"), FramesTmp(s0.nextTmp))
             r == extract_frames(s.loc.duration_sec, MaxFramesArg, o.ex, o.n)
             \* line 273: frames_dir is the directory only if frames came back
             s1 == [s EXCEPT !.loc.frames_dir = s0.nextTmp, !.loc.frames = r.frames]
             caps == CaptionRecords(o.okF, s.nextId, s.loc.video_id, "caption")
             caption_artifacts == s.loc.caption_artifacts \o caps
             fc_arts == SelectSeq(caption_artifacts,
                            LAMBDA x : x \notin Range(s.loc.cascade_artifacts))
         IN IF r.raised
            THEN StageExcept(s, "frames", "Frame captioning skipped")
            ELSE IF r.frames = 0
            THEN s
            ELSE IF ~o.clientOk
            THEN StageExcept(s1, "frames", "Frame captioning skipped")
            ELSE [Called(s1, "caption", o.okF # 1..r.frames) EXCEPT
                    !.loc.caption_artifacts = caption_artifacts,
                    !.loc.artifacts_count = @ + Len(fc_arts),
                    !.db = IF fc_arts # <<>> THEN insert_artifacts_batch(@, fc_arts)
                           ELSE @,
                    !.nextId = @ + Len(caps)]

FramesStage ==
    /\ pc = "frames"
    /\ \E o \in FramesOutcomes(args, loc.duration_sec) :
        LET s == frames_stage(Cur, args, o)
        IN Commit(s) /\ pc' = AfterStage(s, "dense")
    /\ UNCHANGED <<args, result, raised>>

\* What the collaborators of step 5b can do: extract_frames when no frame
\* directory is at hand, then load_principles / render_dense_prompt (promptOk),
\* the captioner, and export_dense_outputs (exportOk)
DenseOutcomes(a, l) ==
    LET none == [ex |-> "unused", n |-> 0, promptOk |-> TRUE, clientOk |-> TRUE,
                 okF |-> {}, exportOk |-> TRUE]
        choices == IF l.frames_dir = 0
                   THEN ExtractChoices(l.duration_sec, MaxFramesArg)
                   ELSE {[ex |-> "unused", n |-> l.frames]}
        got(e) == IF l.frames_dir = 0
                  THEN extract_frames(l.duration_sec, MaxFramesArg, e.ex, e.n)
                  ELSE [raised |-> FALSE, frames |-> l.frames]
    IN IF ~a.dense_vision THEN {none}
       ELSE UNION {
              IF got(e).raised
              THEN {[none EXCEPT !.ex = e.ex, !.n = e.n]}
              ELSE {[none EXCEPT !.ex = e.ex, !.n = e.n, !.promptOk = FALSE]}
                   \cup UNION {
                          {[none EXCEPT !.ex = e.ex, !.n = e.n,
                                        !.clientOk = c.clientOk, !.okF = c.okF,
                                        !.exportOk = x] :
                             x \in IF got(e).frames > 0 /\ c.clientOk
                                   THEN BOOLEAN ELSE {TRUE}}
                          : c \in CaptionChoices(got(e).frames)}
              : e \in choices}

\* Step 5b, lines 303-361: dense visual captions, when dense_vision is set
dense_stage(s0, a, o) ==
    IF ~a.dense_vision THEN s0
    ELSE LET fresh == s0.loc.frames_dir = 0
             sE == Entered(s0, "dense")
             \* lines 306-313: extract again, or list the directory at hand
             s == IF fresh THEN MakeTmp(sE, FramesTmp(s0.nextTmp)) ELSE sE
             r == IF fresh
                  THEN extract_frames(s.loc.duration_sec, MaxFramesArg, o.ex, o.n)
                  ELSE [raised |-> FALSE, frames |-> s.loc.frames]
             s1 == IF fresh /\ ~r.raised /\ r.frames > 0
                   THEN [s EXCEPT !.loc.frames_dir = s0.nextTmp,
                                  !.loc.frames = r.frames]
                   ELSE s
             dense_artifacts == CaptionRecords(o.okF, s.nextId, s.loc.video_id,
                                               "dense_caption")
             s2 == [Called(s1, "caption", o.okF # 1..r.frames) EXCEPT
                      !.loc.dense_artifacts = dense_artifacts,
                      !.loc.artifacts_count = @ + Len(dense_artifacts),
                      !.db = IF dense_artifacts # <<>>
                             THEN insert_artifacts_batch(@, dense_artifacts) ELSE @,
                      !.nextId = @ + Len(dense_artifacts)]
         IN IF r.raised \/ ~o.promptOk \/ (r.frames > 0 /\ ~o.clientOk)
            THEN StageExcept(s1, "dense", "Dense vision skipped")
            ELSE IF r.frames = 0
            THEN s1
            ELSE IF o.exportOk
            THEN s2
            ELSE \* export_dense_outputs raises after the insert
                 StageExcept(s2, "dense", "Dense vision skipped")

DenseStage ==
    /\ pc = "dense"
    /\ \E o \in DenseOutcomes(args, loc) :
        LET s == dense_stage(Cur, args, o)
        IN Commit(s) /\ pc' = AfterStage(s, "embed")
    /\ UNCHANGED <<args, result, raised>>

-----------------------------------------------------------------------------
\* What the collaborators of step 6 can do: OpenAIEmbedder(config) raises,
\* embed raises, or embed returns one vector per text
EmbedOutcomes(a, l) ==
    IF a.no_embed \/ ~a.embed_model
       \/ l.transcript_artifacts \o l.caption_artifacts \o l.dense_artifacts = <<>>
    THEN {"unused"}
    ELSE {"client_error", "api_error", "ok"}

\* Step 6, lines 363-392: embeddings.  All artifacts of the call fit in one
\* batch under the bounds (batch_size = 100), so the loop of line 380 runs
\* once; zip() pairs the ids with the vectors embed returned.
embed_stage(s0, a, o) ==
    LET s == Entered(s0, "embed")
        all_artifacts == s.loc.transcript_artifacts \o s.loc.caption_artifacts
                            \o s.loc.dense_artifacts
        batch == SubSeq(all_artifacts, 1, Min(Len(all_artifacts), batch_size))
        vectors == Len(batch)
        ids == [i \in 1..Min(Len(batch), vectors) |-> batch[i].id]
    IN IF a.no_embed THEN s0
       ELSE IF ~a.embed_model
       THEN \* line 365: embeddings disabled
            [s EXCEPT !.loc = Warn(@, "Embeddings disabled")]
       ELSE IF all_artifacts = <<>> THEN s
       ELSE IF o = "client_error"
       THEN StageExcept(s, "embed", "Embeddings skipped")
       ELSE IF o = "api_error"
       THEN StageExcept(Called(s, "embed", TRUE), "embed", "Embeddings skipped")
       ELSE [Called(s, "embed", FALSE) EXCEPT
               !.db = insert_embeddings_batch(@, ids, s.nextId),
               !.nextId = @ + Len(ids)]

EmbedStage ==
    /\ pc = "embed"
    /\ \E o \in EmbedOutcomes(args, loc) :
        LET s == embed_stage(Cur, args, o)
        IN Commit(s) /\ pc' = AfterStage(s, "finalize")
    /\ UNCHANGED <<args, result, raised>>

-----------------------------------------------------------------------------
(* The way out, lines 394-417 *)

\* the finally clause, lines 400-404: only what audio_path and frames_dir
\* name is removed
Cleanup(fs, l) ==
    fs \ {t \in fs : \/ (l.audio_path # 0 /\ t = AudioTmp(l.audio_path))
                     \/ (l.frames_dir # 0 /\ t = FramesTmp(l.frames_dir))}

\* a result dict that always carries the warnings key
ResultDict_always_lists(l) ==
    [status |-> IF l.warnings # <<>> THEN "complete_with_warnings" ELSE "complete",
     video_id |-> l.video_id, artifacts_count |-> l.artifacts_count,
     warnings |-> l.warnings]

\* the result dict, lines 406-417
ResultDict(l) ==
    LET out == [status |-> IF l.warnings # <<>> THEN "complete_with_warnings"
                           ELSE "complete",
                video_id |-> l.video_id,
                artifacts_count |-> l.artifacts_count]
    IN IF l.warnings # <<>>
       THEN [status |-> out.status, video_id |-> out.video_id,
             artifacts_count |-> out.artifacts_count, warnings |-> l.warnings]
       ELSE out

\* the status ingest_video stores on the row at line 395
FinalStatus(l) == "complete"

\* an outer handler that records the status but drops the message
RecordError_no_message(store, video_id, exc) ==
    update_video_status(store, video_id, "error", "NULL")

\* the outer handler's store write, line 398
RecordError(store, video_id, exc) ==
    update_video_status(store, video_id, "error", exc)

\* the exception the outer handler raises, line 399
Wrapped(exc) == [kind |-> "IngestError", cause |-> exc]

(* Step 7, line 395, then the finally clause and the return of lines       *)
(* 400-417.  The store may refuse the status write (sqlite3 raises); the   *)
(* exception then reaches the outer handler.                               *)
Finalize ==
    /\ pc = "finalize"
    /\ \E storeOk \in BOOLEAN :
        IF storeOk
        THEN /\ db' = update_video_status(db, loc.video_id, FinalStatus(loc), "NULL")
             /\ hist' = [hist EXCEPT !.statusWrites = @ + 1]
             /\ loc' = loc
             /\ tmpfs' = Cleanup(tmpfs, loc)
             /\ result' = ResultDict(loc)
             /\ pc' = "returned"
        ELSE /\ loc' = [loc EXCEPT !.exc = "database is locked"]
             /\ pc' = "fatal"
             /\ UNCHANGED <<db, hist, tmpfs, result>>
    /\ UNCHANGED <<nextId, nextTmp, args, raised>>

(* lines 397-404: the outer handler records the error on the row and       *)
(* raises IngestError from the cause; the finally clause runs on the way   *)
(* out.                                                                    *)
Fatal ==
    /\ pc = "fatal"
    /\ db' = RecordError(db, loc.video_id, loc.exc)
    /\ hist' = [hist EXCEPT !.statusWrites = @ + 1]
    /\ tmpfs' = Cleanup(tmpfs, loc)
    /\ raised' = Wrapped(loc.exc)
    /\ pc' = "raised"
    /\ UNCHANGED <<nextId, nextTmp, args, loc, result>>

Next ==
    \/ Begin
    \/ Idempotency
    \/ Probe
    \/ InsertVideo
    \/ TranscribeStage
    \/ CascadeStage
    \/ FramesStage
    \/ DenseStage
    \/ EmbedStage
    \/ Finalize
    \/ Fatal

Spec == Init /\ [][Next]_vars

-----------------------------------------------------------------------------
(* ingest_video on a store where an earlier call did not finish.  The row  *)
(* is inserted with status pending (models.py via ingest.py 150-164, 186)  *)
(* and stays so if the process ends before line 395; the outer handler     *)
(* (line 398) marks it error with the message of the exception.            *)

\* the earlier ingest of a.mp4 stopped after its transcript was stored
LeftPending ==
    LET v == VideoRecord(1, "a.mp4", file_hash("a.mp4"), ProbedDuration("a.mp4"))
    IN insert_artifacts_batch(insert_video(EmptyStore, v),
                              <<ArtifactRecord(2, 1, "transcript", 0, 5)>>)

\* the earlier ingest of a.mp4 ended in the outer handler
LeftError == RecordError(StoredA, 1, "database is locked")

RetryInit ==
    /\ db \in {LeftPending, LeftError}
    /\ nextId = MaxUuid(db) + 1
    /\ tmpfs = {}
    /\ nextTmp = 1
    /\ pc = "idle"
    /\ args = NoArgs
    /\ loc = NoLocals
    /\ result = NoResult
    /\ raised = NoError
    /\ hist = NoHist

RetrySpec == RetryInit /\ [][Next]_vars

-----------------------------------------------------------------------------
(* run_cascade on its own: a call with any duration (in ticks of half a    *)
(* second, durations being floats), any whole chunk duration, and any      *)
(* outcome of its collaborators.  args holds the call, result what         *)
(* run_cascade hands back.                                                 *)

\* ticks per second
TicksPerSec == 2

\* the replies captioner.caption_chunk may return
Replies == {"", "STATIC", " static ", "STATIC scene", "a person enters"}

\* str.strip() on these replies
Strip(t) == IF t = " static " THEN "static" ELSE t

\* str.upper() on these replies and their stripped forms
Upper(t) ==
    CASE t = "static"          -> "STATIC"
      [] t = " static "        -> " STATIC "
      [] t = "STATIC scene"    -> "STATIC SCENE"
      [] t = "a person enters" -> "A PERSON ENTERS"
      [] OTHER                 -> t

\* a reply read without folding its case
ReplyOutcome_case_sensitive(text) ==
    IF text = "" \/ Strip(text) = "STATIC" THEN "static" ELSE "caption"

\* line 174: an empty reply or the STATIC sentinel drops the chunk
ReplyOutcome(text) ==
    IF text = "" \/ Upper(Strip(text)) = "STATIC" THEN "static" ELSE "caption"

\* what one chunk can meet: a failure, no frames, or a reply of the captioner
RawOutcomes == {"extract_error", "noframes", "caption_error"} \cup Replies

ChunkOutcome(raw) == IF raw \in Replies THEN ReplyOutcome(raw) ELSE raw

Durations == 0..MaxDuration
ChunkDurations == {TicksPerSec * k : k \in 1..MaxChunkSec}

CascadeCalls ==
    UNION {[video_id : {1}, duration_sec : {D}, chunk_duration_sec : {c},
            clientOk : BOOLEAN,
            raw : [0..(NumChunks(D, c) - 1) -> RawOutcomes],
            l1o : Layer1Outcomes, l2o : Layer2Outcomes] :
              D \in Durations, c \in ChunkDurations}

CascadeInit ==
    /\ db = EmptyStore
    /\ nextId = 1
    /\ tmpfs = {}
    /\ nextTmp = 1
    /\ pc = "cascade_call"
    /\ args \in CascadeCalls
    /\ loc = NoLocals
    /\ result = NoResult
    /\ raised = NoError
    /\ hist = NoHist

(* cascade.py 122-253: the whole call *)
RunCascade ==
    /\ pc = "cascade_call"
    /\ LET r == run_cascade(args.video_id, args.duration_sec,
                            args.chunk_duration_sec, nextId, nextTmp,
                            args.clientOk,
                            [i \in DOMAIN args.raw |-> ChunkOutcome(args.raw[i])],
                            args.l1o, args.l2o)
       IN /\ result' = r
          /\ tmpfs' = tmpfs \cup r.left
          /\ nextTmp' = nextTmp + r.nTmp
          /\ nextId' = nextId + Len(r.l0) + Len(r.l1) + Len(r.l2)
          /\ hist' = [hist EXCEPT !.created = @ \cup r.created,
                                  !.capCalled = @ \cup r.called,
                                  !.capFailed = @ \cup r.failed]
          /\ pc' = IF r.raised THEN "cascade_raised" ELSE "cascade_returned"
          /\ raised' = IF r.raised
                       THEN [kind |-> "OpenAIError", cause |-> "client"]
                       ELSE raised
    /\ UNCHANGED <<db, args, loc>>

CascadeNext == RunCascade

CascadeSpec == CascadeInit /\ [][CascadeNext]_vars

-----------------------------------------------------------------------------
(* _transcribe_with_chunking, ingest.py 55-88, on its own.  Times are in   *)
(* ticks.  args holds the call, loc its local variables, hist what each    *)
(* segment met, result the merged list it returns.                         *)

\* the k entries a transcription of an audio of duration d returns: in time
\* order, one after the other, within [0, d]
SegmentEntries(k, d) ==
    [j \in 1..k |-> [start_sec |-> ((j - 1) * d) \div k, end_sec |-> (j * d) \div k]]

ShiftEntries_start_only(ch_segments, offset) ==
    [j \in 1..Len(ch_segments) |->
        [start_sec |-> ch_segments[j].start_sec + offset,
         end_sec   |-> ch_segments[j].end_sec]]

\* lines 74-76: the entries of a segment moved by the running offset
ShiftEntries(ch_segments, offset) ==
    [j \in 1..Len(ch_segments) |->
        [start_sec |-> ch_segments[j].start_sec + offset,
         end_sec   |-> ch_segments[j].end_sec + offset]]

\* lines 68-71: the probed duration of the chunk, or seg_sec if the probe fails
ChunkDuration(probeOk, d, seg_sec) == IF probeOk THEN d ELSE seg_sec

SplitDir(n) == [kind |-> "audio_chunks", n |-> n]
ChunkFile(i) == [kind |-> "chunk_wav", n |-> i]

\* what transcriber.transcribe can do: raise (ok false), or return k entries
TranscribeReplies ==
    {[ok |-> FALSE, k |-> 0]} \cup {[ok |-> TRUE, k |-> k] : k \in 0..MaxSegs}

\* what _split_audio can do after the probe of _chunk_seconds_for_audio:
\* the probe raises, ffmpeg raises, or n chunk files are found
SplitOutcomes ==
    {[res |-> "probe_error", n |-> 0], [res |-> "ffmpeg_error", n |-> 0]}
    \cup {[res |-> "ok", n |-> n] : n \in 0..MaxAudioChunks}

NoReply == [ok |-> TRUE, k |-> 0]

TwcLocals ==
    [seg_sec |-> 0, chunks |-> 0, i |-> 0, offset |-> 0, all_segments |-> <<>>,
     dir |-> 0]

TwcInit ==
    /\ db = EmptyStore
    /\ nextId = 1
    /\ tmpfs = {}
    /\ nextTmp = 1
    /\ pc = "twc_call"
    /\ args \in [big : BOOLEAN, duration : 1..MaxChunkLen]
    /\ loc = TwcLocals
    /\ result = NoResult
    /\ raised = NoError
    /\ hist = <<>>

(* lines 57-63: a small audio, or one that splits into no chunk, is        *)
(* transcribed in one call; otherwise seg_sec is computed and _split_audio *)
(* makes its directory and cuts the chunks (ffmpeg may fail: check=True).  *)
TwcCall ==
    /\ pc = "twc_call"
    /\ \E split \in SplitOutcomes, seg_sec \in 1..MaxChunkLen,
          tr \in TranscribeReplies :
        LET failed == split.res # "ok"
            direct == ~args.big \/ (split.res = "ok" /\ split.n = 0)
            made == args.big /\ split.res # "probe_error"
            n == split.n
        IN /\ (~args.big => split = [res |-> "ok", n |-> 0] /\ seg_sec = 1)
           /\ ((~direct \/ failed) => tr = NoReply)
           /\ (failed => seg_sec = 1)
           /\ tmpfs' = IF made
                       THEN tmpfs \cup {SplitDir(nextTmp)}
                                  \cup {ChunkFile(i) : i \in 1..n}
                       ELSE tmpfs
           /\ nextTmp' = IF made THEN nextTmp + 1 ELSE nextTmp
           /\ loc' = [loc EXCEPT !.seg_sec = IF args.big THEN seg_sec ELSE 0,
                                 !.chunks = n,
                                 !.dir = IF made THEN nextTmp ELSE 0]
           /\ IF failed
              THEN /\ pc' = "twc_raised"
                   /\ raised' = [kind |-> "Exception", cause |-> split.res]
                   /\ UNCHANGED <<result, hist>>
              ELSE IF direct
              THEN /\ hist' = <<[d |-> args.duration, ch_dur |-> args.duration,
                                 tr |-> tr, whole |-> TRUE]>>
                   /\ IF ~tr.ok
                      THEN /\ pc' = "twc_raised"
                           /\ raised' = [kind |-> "APIError",
                                         cause |-> "Transcription failed"]
                           /\ result' = result
                      ELSE /\ pc' = "twc_returned"
                           /\ result' = [status |-> "segments",
                                         segments |-> SegmentEntries(tr.k, args.duration)]
                           /\ raised' = raised
              ELSE /\ pc' = "twc_loop"
                   /\ UNCHANGED <<result, raised, hist>>
    /\ UNCHANGED <<db, nextId, args>>

(* lines 67-83: one turn of the loop.  The chunk is probed, transcribed    *)
(* and unlinked; there is no except clause, so a failed transcription      *)
(* leaves the function once the finally clause has unlinked the chunk.     *)
TwcSegment ==
    /\ pc = "twc_loop"
    /\ loc.i < loc.chunks
    /\ \E d \in 1..MaxChunkLen, probeOk \in BOOLEAN, tr \in TranscribeReplies :
        LET ch_dur == ChunkDuration(probeOk, d, loc.seg_sec)
        IN /\ hist' = Append(hist, [d |-> d, ch_dur |-> ch_dur, tr |-> tr,
                                    whole |-> FALSE])
           /\ tmpfs' = tmpfs \ {ChunkFile(loc.i + 1)}
           /\ IF ~tr.ok
              THEN /\ pc' = "twc_raised"
                   /\ raised' = [kind |-> "APIError", cause |-> "Transcription failed"]
                   /\ loc' = loc
              ELSE /\ pc' = pc
                   /\ raised' = raised
                   /\ loc' = [loc EXCEPT
                         !.all_segments =
                             @ \o ShiftEntries(SegmentEntries(tr.k, d), loc.offset),
                         !.offset = @ + ch_dur,
                         !.i = @ + 1]
    /\ UNCHANGED <<db, nextId, nextTmp, args, result>>

(* lines 84-88: the chunk directory is removed and the merged list returned *)
TwcFinish ==
    /\ pc = "twc_loop"
    /\ loc.i = loc.chunks
    /\ tmpfs' = tmpfs \ ({SplitDir(loc.dir)} \cup {ChunkFile(i) : i \in 1..loc.chunks})
    /\ result' = [status |-> "segments", segments |-> loc.all_segments]
    /\ pc' = "twc_returned"
    /\ UNCHANGED <<db, nextId, nextTmp, args, loc, raised, hist>>

TwcNext ==
    \/ TwcCall
    \/ TwcSegment
    \/ TwcFinish

TwcSpec == TwcInit /\ [][TwcNext]_vars

-----------------------------------------------------------------------------
(* The store on its own: the tables and the full-text index that migrate   *)
(* creates (schema.py), behind one Repository connection (connection.py:   *)
(* foreign keys on, Python's implicit transactions).  db is what the       *)
(* connection sees; hist.durable is what is committed, which is what any   *)
(* other connection sees and what is left when the connection is closed.   *)
(* Every Repository method ends in commit(); a method that raises before   *)
(* its commit leaves its earlier rows in the open transaction.             *)

\* most rows of one executemany
MaxBatch == 2
\* most operations on one store
MaxStoreOps == 2

NULL == "NULL"

\* schema.py 15-69: the three tables and artifacts_fts, all empty
MigratedStore ==
    [videos |-> {}, artifacts |-> {}, embeddings |-> {}, fts |-> EmptyBag]

\* a row of artifacts: the columns given and the rowid SQLite assigns
ArtifactRow(a, rowid) ==
    [id |-> a.id, video_id |-> a.video_id, text |-> a.text, rowid |-> rowid]

\* an entry of artifacts_fts (content_rowid = rowid)
FtsEntry(row) == [rowid |-> row.rowid, text |-> row.text]

\* the rowid of a new row of a table without INTEGER PRIMARY KEY: one more
\* than the largest rowid in the table
NextRowid(store) ==
    LET used == {a.rowid : a \in store.artifacts} \cup {0}
    IN (CHOOSE m \in used : \A x \in used : x <= m) + 1

\* trigger artifacts_ai, schema.py 60-62
artifacts_ai(store, new) ==
    [store EXCEPT !.fts = @ (+) SetToBag({FtsEntry(new)})]

\* trigger artifacts_ad, schema.py 63-65
artifacts_ad(store, old) ==
    [store EXCEPT !.fts = @ (-) SetToBag({FtsEntry(old)})]

artifacts_au_keeps_old(store, old, new) ==
    [store EXCEPT !.fts = @ (+) SetToBag({[rowid |-> new.rowid, text |-> new.text]})]

\* trigger artifacts_au, schema.py 66-69
artifacts_au(store, old, new) == artifacts_ai(artifacts_ad(store, old), new)

\* artifacts_ad for each row a statement deleted
FireDelete(store, olds) ==
    [store EXCEPT !.fts = @ (-) SetToBag({FtsEntry(o) : o \in olds})]

VideoViolates_id_only(store, video) ==
    \E v \in store.videos : v.id = video.id

\* videos: id PRIMARY KEY, file_hash UNIQUE (schema.py 16, 18)
VideoViolates(store, video) ==
    \E v \in store.videos : v.id = video.id \/ v.file_hash = video.file_hash

\* artifacts: id PRIMARY KEY, video_id REFERENCES videos(id), text NOT NULL
\* (schema.py 35-40)
ArtifactViolates(store, a) ==
    \/ a.text = NULL
    \/ \E x \in store.artifacts : x.id = a.id
    \/ ~\E v \in store.videos : v.id = a.video_id

EmbeddingViolates_unchecked(store, e) ==
    \E x \in store.embeddings : x.id = e.id

\* embeddings: id PRIMARY KEY, artifact_id REFERENCES artifacts(id)
\* (schema.py 48-49)
EmbeddingViolates(store, e) ==
    \/ \E x \in store.embeddings : x.id = e.id
    \/ ~\E a \in store.artifacts : a.id = e.artifact_id

\* INSERT INTO artifacts of one row, with its trigger
InsertArtifactRow(store, a) ==
    LET row == ArtifactRow(a, NextRowid(store))
    IN artifacts_ai([store EXCEPT !.artifacts = @ \cup {row}], row)

\* conn.executemany of insert_artifacts_batch, repository.py 149-156: the
\* rows are inserted in order; the first row the schema refuses raises
\* IntegrityError and the rows before it stay in the open transaction
RECURSIVE executemany_artifacts(_, _)
executemany_artifacts(store, rows) ==
    IF rows = <<>> THEN [store |-> store, ok |-> TRUE]
    ELSE IF ArtifactViolates(store, Head(rows))
         THEN [store |-> store, ok |-> FALSE]
         ELSE executemany_artifacts(InsertArtifactRow(store, Head(rows)), Tail(rows))

\* conn.executemany of insert_embeddings_batch, repository.py 197-200
RECURSIVE executemany_embeddings(_, _)
executemany_embeddings(store, rows) ==
    IF rows = <<>> THEN [store |-> store, ok |-> TRUE]
    ELSE IF EmbeddingViolates(store, Head(rows))
         THEN [store |-> store, ok |-> FALSE]
         ELSE executemany_embeddings(
                  [store EXCEPT !.embeddings = @ \cup {Head(rows)}], Tail(rows))

\* DELETE FROM artifacts of one row: its embeddings go with it (ON DELETE
\* CASCADE, schema.py 49) and artifacts_ad fires
delete_artifact(store, artifact_id) ==
    LET gone == {a \in store.artifacts : a.id = artifact_id}
    IN FireDelete([store EXCEPT
                      !.artifacts = @ \ gone,
                      !.embeddings = {e \in @ : e.artifact_id # artifact_id}],
                  gone)

\* UPDATE artifacts SET text of one row, with its trigger
update_artifact_text(store, artifact_id, text) ==
    IF \E a \in store.artifacts : a.id = artifact_id
    THEN LET old == CHOOSE a \in store.artifacts : a.id = artifact_id
             new == [old EXCEPT !.text = text]
         IN artifacts_au([store EXCEPT !.artifacts = (@ \ {old}) \cup {new}],
                         old, new)
    ELSE store

\* a store two earlier ingests left: videos 1 (a.mp4) and 2 (b.mp4), one
\* artifact each (3, 4) and one embedding each (5, 6)
SeededStore ==
    LET s1 == insert_video(MigratedStore,
                  VideoRecord(1, "a.mp4", file_hash("a.mp4"), ProbedDuration("a.mp4")))
        s2 == insert_video(s1,
                  VideoRecord(2, "b.mp4", file_hash("b.mp4"), ProbedDuration("b.mp4")))
        s3 == executemany_artifacts(s2,
                  <<[id |-> 3, video_id |-> 1, text |-> "cat"],
                    [id |-> 4, video_id |-> 2, text |-> "cat"]>>).store
    IN executemany_embeddings(s3,
           <<[id |-> 5, artifact_id |-> 3], [id |-> 6, artifact_id |-> 4]>>).store

OneVideoStore ==
    insert_video(MigratedStore,
        VideoRecord(1, "a.mp4", file_hash("a.mp4"), ProbedDuration("a.mp4")))

Texts == {"cat", "dog"}

\* the rows a caller may hand to an artifact insert: of a stored video or of
\* none (0), with a text or without
ArtifactInputs(store) ==
    [video_id : {v.id : v \in store.videos} \cup {0}, text : {"cat", NULL}]

\* the artifacts a caller may hand embeddings for: stored ones or none (0)
EmbeddingInputs(store) == {a.id : a \in store.artifacts} \cup {0}

\* the batches a caller may hand to a batch insert: up to MaxBatch rows for
\* one video (one artifact), all of them good but at most one, at any place
BatchShapes == {[len |-> k, bad |-> b] : k \in 1..MaxBatch, b \in 0..MaxBatch}

ArtifactBatches(store) ==
    {[i \in 1..sh.len |-> IF i = sh.bad THEN bad ELSE [bad EXCEPT !.video_id = v, !.text = "cat"]] :
        sh \in BatchShapes, v \in {x.id : x \in store.videos},
        bad \in {a \in ArtifactInputs(store) : a.video_id = 0 \/ a.text = NULL}}

EmbeddingBatches(store) ==
    {[i \in 1..sh.len |-> IF i = sh.bad THEN 0 ELSE a] :
        sh \in BatchShapes, a \in {x.id : x \in store.artifacts}}

NoStoreHist ==
    [durable |-> MigratedStore,    \* the committed store
     before |-> MigratedStore,     \* what the connection saw before the operation
     durableBefore |-> MigratedStore,  \* what was committed before the operation
     ops |-> 0,                    \* operations so far
     partial |-> {},               \* ids of the rows batches that raised had inserted
     refused |-> {}]               \* ids of the rows of batches that raised

StoreInit ==
    /\ db \in {MigratedStore, OneVideoStore, SeededStore}
    /\ nextId = MaxUuid(db) + 1
    /\ tmpfs = {}
    /\ nextTmp = 1
    /\ pc = "store_open"
    /\ args = [op |-> "open"]
    /\ loc = NoLocals
    /\ result = NoResult
    /\ raised = NoError
    /\ hist = [NoStoreHist EXCEPT !.durable = db, !.before = db,
                                  !.durableBefore = db]

CanOperate == pc = "store_open" /\ hist.ops < MaxStoreOps

\* what a method that reached its commit() leaves
Committed(store, op) ==
    /\ db' = store
    /\ args' = op
    /\ raised' = NoError
    /\ hist' = [hist EXCEPT !.durable = store, !.before = db,
                            !.durableBefore = hist.durable, !.ops = @ + 1]

\* what a method that raised before its commit() leaves
Uncommitted(store, op, exc, partial, refused) ==
    /\ db' = store
    /\ args' = op
    /\ raised' = exc
    /\ hist' = [hist EXCEPT !.before = db, !.durableBefore = hist.durable,
                            !.ops = @ + 1,
                            !.partial = @ \cup partial,
                            !.refused = @ \cup refused]

IntegrityError == [kind |-> "IntegrityError"]

\* Repository.insert_video, repository.py 47-62
StoreInsertVideo ==
    /\ CanOperate
    /\ \E p \in {q \in Paths : PathExists(q)} :
        LET video == VideoRecord(nextId, p, file_hash(p), ProbedDuration(p))
            op == [op |-> "insert_video", id |-> nextId, file_hash |-> file_hash(p)]
        IN IF VideoViolates(db, video)
           THEN Uncommitted(db, op,
                    [kind |-> "DatabaseError", cause |-> "Video already exists"],
                    {}, {})
           ELSE Committed(insert_video(db, video), op)
    /\ nextId' = nextId + 1
    /\ UNCHANGED <<tmpfs, nextTmp, pc, loc, result>>

\* Repository.update_video_status, repository.py 78-83
StoreUpdateStatus ==
    /\ CanOperate
    /\ \E v \in db.videos :
        Committed(update_video_status(db, v.id, "complete", NULL),
                  [op |-> "update_video_status", id |-> v.id])
    /\ UNCHANGED <<nextId, tmpfs, nextTmp, pc, loc, result>>

\* Repository.delete_video, repository.py 130-132, with the cascade and the
\* delete trigger of every artifact the cascade removes
StoreDeleteVideo ==
    /\ CanOperate
    /\ \E v \in db.videos :
        Committed(FireDelete(delete_video(db, v.id),
                             {a \in db.artifacts : a.video_id = v.id}),
                  [op |-> "delete_video", id |-> v.id])
    /\ UNCHANGED <<nextId, tmpfs, nextTmp, pc, loc, result>>

\* Repository.insert_artifact, repository.py 136-146
StoreInsertArtifact ==
    /\ CanOperate
    /\ \E a \in ArtifactInputs(db) :
        LET row == [id |-> nextId, video_id |-> a.video_id, text |-> a.text]
            op == [op |-> "insert_artifact", id |-> nextId]
        IN IF ArtifactViolates(db, row)
           THEN Uncommitted(db, op, IntegrityError, {}, {})
           ELSE Committed(InsertArtifactRow(db, row), op)
    /\ nextId' = nextId + 1
    /\ UNCHANGED <<tmpfs, nextTmp, pc, loc, result>>

\* Repository.insert_artifacts_batch, repository.py 148-157
StoreInsertArtifactsBatch ==
    /\ CanOperate
    /\ \E batch \in ArtifactBatches(db) :
        LET rows == [i \in 1..Len(batch) |->
                        [id |-> nextId + i - 1, video_id |-> batch[i].video_id,
                         text |-> batch[i].text]]
            ids == {rows[i].id : i \in 1..Len(rows)}
            r == executemany_artifacts(db, rows)
            op == [op |-> "insert_artifacts_batch", id |-> nextId, n |-> Len(rows)]
        IN /\ IF r.ok
              THEN Committed(r.store, op)
              ELSE Uncommitted(r.store, op, IntegrityError,
                       {a.id : a \in r.store.artifacts} \cap ids, ids)
           /\ nextId' = nextId + Len(rows)
    /\ UNCHANGED <<tmpfs, nextTmp, pc, loc, result>>

\* Repository.insert_embedding, repository.py 180-187
StoreInsertEmbedding ==
    /\ CanOperate
    /\ \E artifact_id \in EmbeddingInputs(db) :
        LET row == [id |-> nextId, artifact_id |-> artifact_id]
            op == [op |-> "insert_embedding", id |-> nextId]
        IN IF EmbeddingViolates(db, row)
           THEN Uncommitted(db, op, IntegrityError, {}, {})
           ELSE Committed([db EXCEPT !.embeddings = @ \cup {row}], op)
    /\ nextId' = nextId + 1
    /\ UNCHANGED <<tmpfs, nextTmp, pc, loc, result>>

\* Repository.insert_embeddings_batch, repository.py 189-201: every row gets
\* a fresh uuid
StoreInsertEmbeddingsBatch ==
    /\ CanOperate
    /\ \E items \in EmbeddingBatches(db) :
        LET rows == [i \in 1..Len(items) |->
                        [id |-> nextId + i - 1, artifact_id |-> items[i]]]
            ids == {rows[i].id : i \in 1..Len(rows)}
            r == executemany_embeddings(db, rows)
            op == [op |-> "insert_embeddings_batch", id |-> nextId, n |-> Len(rows)]
        IN /\ IF r.ok
              THEN Committed(r.store, op)
              ELSE Uncommitted(r.store, op, IntegrityError,
                       {e.id : e \in r.store.embeddings} \cap ids, ids)
           /\ nextId' = nextId + Len(rows)
    /\ UNCHANGED <<tmpfs, nextTmp, pc, loc, result>>

\* UPDATE artifacts SET text = ... WHERE id = ... on the connection,
\* committed: the statement trigger artifacts_au is written for
StoreUpdateArtifactText ==
    /\ CanOperate
    /\ \E a \in db.artifacts : \E t \in Texts \ {a.text} :
        Committed(update_artifact_text(db, a.id, t),
                  [op |-> "update_artifact", id |-> a.id])
    /\ UNCHANGED <<nextId, tmpfs, nextTmp, pc, loc, result>>

\* DELETE FROM artifacts WHERE id = ... on the connection, committed: the
\* statement trigger artifacts_ad is written for
StoreDeleteArtifact ==
    /\ CanOperate
    /\ \E a \in db.artifacts :
        Committed(delete_artifact(db, a.id),
                  [op |-> "delete_artifact", id |-> a.id])
    /\ UNCHANGED <<nextId, tmpfs, nextTmp, pc, loc, result>>

\* Repository.close and a new Repository on the same file: what was not
\* committed is rolled back
StoreReopen ==
    /\ CanOperate
    /\ db' = hist.durable
    /\ args' = [op |-> "reopen"]
    /\ raised' = NoError
    /\ hist' = [hist EXCEPT !.before = db, !.durableBefore = hist.durable,
                            !.ops = @ + 1]
    /\ UNCHANGED <<nextId, tmpfs, nextTmp, pc, loc, result>>

StoreNext ==
    \/ StoreInsertVideo
    \/ StoreUpdateStatus
    \/ StoreDeleteVideo
    \/ StoreInsertArtifact
    \/ StoreInsertArtifactsBatch
    \/ StoreInsertEmbedding
    \/ StoreInsertEmbeddingsBatch
    \/ StoreUpdateArtifactText
    \/ StoreDeleteArtifact
    \/ StoreReopen

StoreSpec == StoreInit /\ [][StoreNext]_vars

-----------------------------------------------------------------------------
(* search, semantic.py 23-94, on its own.  args holds the call and what    *)
(* the store holds for it: the number of artifacts the query matches and,  *)
(* for each of them in lexical order, whether an embedding is stored and   *)
(* the cosine similarity that embedding has with the query vector.         *)
(* Similarities and scores are in units of 0.00001, so that rounding to    *)
(* four places does something.                                             *)

\* largest limit a caller asks for
MaxLimit == 2
\* most artifacts a query matches
MaxHits == 4

\* line 35: the lexical phase asks for limit * 3 candidates
OVERFETCH == 3

Abs(x) == IF x < 0 THEN 0 - x ELSE x

\* round(x, 4): to the nearest multiple of 0.0001, a tie to the even one
Round4(x) ==
    LET q == x \div 10
        r == x % 10
    IN 10 * (IF r < 5 THEN q
             ELSE IF r > 5 THEN q + 1
             ELSE IF q % 2 = 0 THEN q ELSE q + 1)

\* the relevance the full-text index gives the i-th best match (bm25: below
\* zero, the best match lowest)
FtsRank(i) == 0 - (125 \div i)

SearchResult(rank, score, artifact_id) ==
    [rank |-> rank, score |-> score, artifact_id |-> artifact_id]

\* Repository.search_fts, repository.py 205-249, without video filter: the
\* best `limit` matches in index order, ranked from 1, the score made
\* positive and rounded
search_fts(hits, limit) ==
    [i \in 1..Min(hits, limit) |-> SearchResult(i, Round4(Abs(FtsRank(i))), i)]

\* Repository.search_fts with a video filter, repository.py 209-220: the
\* statement selects `rank`, a column of artifacts_fts, from artifacts and
\* videos only (artifacts_fts is named in the subquery alone), so SQLite
\* refuses it with "no such column: rank", whatever the store holds
search_fts_refused(video_id) == video_id # 0

\* the similarities a stored embedding may have with the query vector
Sims == {-15, 0, 4, 15}

NotStored == [stored |-> FALSE, sim |-> 0]
StoredSims == {NotStored} \cup {[stored |-> TRUE, sim |-> x] : x \in Sims}

\* Repository.get_embeddings_for_artifacts, repository.py 251-264: the
\* artifacts among artifact_ids that have a stored embedding
get_embeddings_for_artifacts(emb, artifact_ids) ==
    {a \in artifact_ids : emb[a].stored}

Truncate_keeps_all(q, limit) == q

\* q[:limit]
Truncate(q, limit) == SubSeq(q, 1, Min(Len(q), limit))

Scored_skips_missing(fts_results, emb, embeddings) ==
    LET have == SelectSeq(fts_results, LAMBDA r : r.artifact_id \in embeddings)
    IN [i \in 1..Len(have) |-> [sim |-> emb[have[i].artifact_id].sim, r |-> have[i]]]

\* lines 58-64: every candidate with its similarity, 0.0 without embedding
Scored(fts_results, emb, embeddings) ==
    [i \in 1..Len(fts_results) |->
        [sim |-> IF fts_results[i].artifact_id \in embeddings
                 THEN emb[fts_results[i].artifact_id].sim
                 ELSE 0,
         r |-> fts_results[i]]]

SortDesc_unsorted(scored) == scored

\* line 66: scored.sort(key = sim, reverse = True); the sort is stable, so
\* equal similarities keep their order
SortDesc(scored) ==
    LET n == Len(scored)
        pos(i) == 1 + Cardinality({j \in 1..n :
                        \/ scored[j].sim > scored[i].sim
                        \/ scored[j].sim = scored[i].sim /\ j < i})
    IN [k \in 1..n |-> scored[CHOOSE i \in 1..n : pos(i) = k]]

\* lines 67-81: the first `limit` of the sorted list, ranked from 1, the
\* score the rounded similarity
Reranked(scored, limit) ==
    LET top == Truncate(SortDesc(scored), limit)
    IN [i \in 1..Len(top) |->
           SearchResult(i, Round4(top[i].sim), top[i].r.artifact_id)]

NeedsVectors_always(embeddings) == TRUE

\* line 50: if embeddings
NeedsVectors(embeddings) == embeddings # {}

\* what embedding the query can do: OpenAIEmbedder or embed raises; embed
\* returns no vector; it returns a vector; it returns one that
\* _cosine_similarity cannot compute with, which raises
EmbedReplies == {"raise", "empty", "vector", "bad_vector"}

\* lines 52-84
Vectors(fts_results, emb, embeddings, limit, reply) ==
    CASE reply = "vector" -> Reranked(Scored(fts_results, emb, embeddings), limit)
      [] reply = "empty"  -> fts_results
      [] OTHER            -> Truncate(fts_results, limit)

\* lines 89-94
SearchDict(fts_results) ==
    [status |-> "searched", results |-> fts_results, total_results |-> Len(fts_results)]

SearchCalls ==
    UNION {[limit : 1..MaxLimit, video_id : {0, 1}, hits : {h},
            emb : [1..h -> StoredSims]] : h \in 0..MaxHits}

\* results is the local of ask
NoSearchLocals == [fts_results |-> <<>>, embeddings |-> {}, results |-> <<>>]

NoSearchHist ==
    [loaded |-> 0,             \* calls of get_embeddings_for_artifacts
     embedCalls |-> 0,         \* calls of the embedding capability
     chatCalls |-> 0,          \* calls of the chat capability
     reply |-> "none"]         \* what the embedding capability did

SearchInit ==
    /\ db = EmptyStore
    /\ nextId = 1
    /\ tmpfs = {}
    /\ nextTmp = 1
    /\ pc = "search_call"
    /\ args \in SearchCalls
    /\ loc = NoSearchLocals
    /\ result = NoResult
    /\ raised = NoError
    /\ hist = NoSearchHist

\* lines 35-44: the lexical phase; no candidate ends the search
SearchLexical ==
    /\ pc = "search_call"
    /\ IF search_fts_refused(args.video_id)
       THEN /\ raised' = [kind |-> "OperationalError", cause |-> "no such column: rank"]
            /\ pc' = "search_raised"
            /\ UNCHANGED <<loc, result>>
       ELSE LET fts_results == search_fts(args.hits, args.limit * OVERFETCH)
            IN /\ loc' = [loc EXCEPT !.fts_results = fts_results]
               /\ raised' = raised
               /\ IF fts_results = <<>>
                  THEN /\ result' = SearchDict(<<>>)
                       /\ pc' = "search_returned"
                  ELSE /\ result' = result
                       /\ pc' = "search_embeddings"
    /\ UNCHANGED <<db, nextId, tmpfs, nextTmp, args, hist>>

\* lines 47-50 and 85-94: the stored embeddings of the candidates; without
\* any, the lexical ranking is cut to limit and returned
SearchEmbeddings ==
    /\ pc = "search_embeddings"
    /\ LET artifact_ids == {loc.fts_results[i].artifact_id :
                               i \in 1..Len(loc.fts_results)}
           embeddings == get_embeddings_for_artifacts(args.emb, artifact_ids)
       IN /\ loc' = [loc EXCEPT !.embeddings = embeddings]
          /\ hist' = [hist EXCEPT !.loaded = @ + 1]
          /\ IF NeedsVectors(embeddings)
             THEN /\ result' = result
                  /\ pc' = "search_vectors"
             ELSE /\ result' = SearchDict(Truncate(loc.fts_results, args.limit))
                  /\ pc' = "search_returned"
    /\ UNCHANGED <<db, nextId, tmpfs, nextTmp, args, raised>>

\* lines 51-84 and 88-94: the query is embedded and the candidates are
\* re-ranked; a failure falls back to the lexical ranking
SearchVectors ==
    /\ pc = "search_vectors"
    /\ \E reply \in EmbedReplies :
        /\ hist' = [hist EXCEPT !.embedCalls = @ + 1, !.reply = reply]
        /\ result' = SearchDict(Vectors(loc.fts_results, args.emb, loc.embeddings,
                                        args.limit, reply))
    /\ pc' = "search_returned"
    /\ UNCHANGED <<db, nextId, tmpfs, nextTmp, args, loc, raised>>

SearchNext ==
    \/ SearchLexical
    \/ SearchEmbeddings
    \/ SearchVectors

SearchSpec == SearchInit /\ [][SearchNext]_vars

-----------------------------------------------------------------------------
(* ask, rag.py 11-69: a search with limit = top_k (args.limit), then the   *)
(* chat capability on the hits.                                            *)

ONE == 100000
HALF == 50000

NoContent == "No relevant content found in the indexed videos."

\* round(x, 2): to the nearest multiple of 0.01, a tie to the even one
Round2(x) ==
    LET q == x \div 1000
        r == x % 1000
    IN 1000 * (IF r < 500 THEN q
               ELSE IF r > 500 THEN q + 1
               ELSE IF q % 2 = 0 THEN q ELSE q + 1)

NoHits_never(results) == FALSE

\* line 26: if not results
NoHits(results) == results = <<>>

\* lines 62-63
Confidence(results) ==
    LET top_score == IF results # <<>> THEN results[1].score ELSE 0
    IN IF top_score # 0 THEN Min(Round2(top_score), ONE) ELSE HALF

\* lines 50-59
Citations(results) ==
    [i \in 1..Len(results) |->
        [artifact_id |-> results[i].artifact_id, score |-> results[i].score]]

\* what OpenAILLM(config) and llm.complete can do
ChatReplies == {"raise", "answer"}

\* lines 21-23: an exception of search is not caught by ask
AskSearchRaised ==
    /\ pc = "search_raised"
    /\ pc' = "ask_raised"
    /\ UNCHANGED <<db, nextId, tmpfs, nextTmp, args, loc, result, raised, hist>>

\* lines 25-69
AskCompose ==
    /\ pc = "search_returned"
    /\ LET results == result.results
       IN /\ loc' = [loc EXCEPT !.results = results]
          /\ IF NoHits(results)
             THEN /\ result' = [status |-> "answered", answer |-> NoContent,
                                citations |-> <<>>, confidence |-> 0]
                  /\ pc' = "ask_returned"
                  /\ UNCHANGED <<raised, hist>>
             ELSE \E reply \in ChatReplies :
                  /\ hist' = [hist EXCEPT !.chatCalls = @ + 1]
                  /\ IF reply = "raise"
                     THEN /\ raised' = [kind |-> "APIError", cause |-> "chat"]
                          /\ pc' = "ask_raised"
                          /\ result' = result
                     ELSE /\ result' = [status |-> "answered", answer |-> "completion",
                                        citations |-> Citations(results),
                                        confidence |-> Confidence(results)]
                          /\ pc' = "ask_returned"
                          /\ raised' = raised
    /\ UNCHANGED <<db, nextId, tmpfs, nextTmp, args>>

AskNext ==
    \/ SearchLexical
    \/ SearchEmbeddings
    \/ SearchVectors
    \/ AskSearchRaised
    \/ AskCompose

AskSpec == SearchInit /\ [][AskNext]_vars

-----------------------------------------------------------------------------
(* Embedding vectors in the store: ingest.py 380-386 builds the items,     *)
(* Repository.insert_embeddings_batch (repository.py 189-201) packs each   *)
(* vector with struct format "<n>f" and stores it beside the dim it was    *)
(* given, get_embeddings_for_artifacts (251-264) unpacks with "<dim>f".    *)
(* A component is a Python float that is a multiple of 2^-UNIT_BITS,       *)
(* written as its count of units; format "f" is IEEE single precision.     *)

MaxVecLen == 2
UNIT_BITS == 30
MANT_DIG == 24

\* the components an embedding response can carry: 0.0, 0.5, the multiple
\* of 2^-30 next to 0.1, and -(2^-6 + 2^-30)
Components == {0, 536870912, 107374182, -16777217}

RECURSIVE VectorsOfLen(_)
VectorsOfLen(n) ==
    IF n = 0 THEN {<<>>}
    ELSE {Append(v, c) : v \in VectorsOfLen(n - 1), c \in Components}

ReturnedVectors == UNION {VectorsOfLen(n) : n \in 0..MaxVecLen}

\* the number of binary digits of a natural number
BitLength(m) == IF m = 0 THEN 0 ELSE CHOOSE n \in 1..(UNIT_BITS + 1) : 2^(n - 1) <= m /\ m < 2^n

\* struct format "f": the double is rounded to MANT_DIG significant binary
\* digits, ties to even
Float32(x) ==
    LET m == Abs(x)
        drop == IF BitLength(m) > MANT_DIG THEN BitLength(m) - MANT_DIG ELSE 0
        q == 2^drop
        lo == (m \div q) * q
        r == m - lo
        up == 2 * r > q \/ (2 * r = q /\ (m \div q) % 2 = 1)
        n == IF up THEN lo + q ELSE lo
    IN IF x < 0 THEN 0 - n ELSE n

\* struct.pack(f"{len(vector)}f", *vector): one single per component
struct_pack(vector) == [i \in 1..Len(vector) |-> Float32(vector[i])]

\* struct.unpack(f"{dim}f", blob): struct.error unless the buffer holds
\* exactly dim singles
struct_unpack(dim, blob) ==
    IF dim = Len(blob) THEN [ok |-> TRUE, vec |-> blob]
    ELSE [ok |-> FALSE, vec |-> <<>>]

\* items that all carry the dimension of the first vector of the batch
Items_first_dim(batch_ids, vectors) ==
    [i \in 1..Len(batch_ids) |->
        [artifact_id |-> batch_ids[i], dim |-> Len(vectors[1]), vector |-> vectors[i]]]

\* ingest.py 385: (aid, model, len(vec), vec) for each id and its vector
Items(batch_ids, vectors) ==
    [i \in 1..Len(batch_ids) |->
        [artifact_id |-> batch_ids[i], dim |-> Len(vectors[i]), vector |-> vectors[i]]]

\* repository.py 193-196: the rows of a batch, ids drawn from uuid4
EmbeddingRows(items, firstId) ==
    {[id |-> firstId + i - 1, artifact_id |-> items[i].artifact_id,
      dim |-> items[i].dim, vector |-> struct_pack(items[i].vector)] :
        i \in 1..Len(items)}

\* a store with one video and the two artifacts that are to be embedded
TwoArtifacts ==
    LET v == VideoRecord(1, "a.mp4", file_hash("a.mp4"), ProbedDuration("a.mp4"))
    IN insert_artifacts_batch(insert_video(EmptyStore, v),
                              <<ArtifactRecord(2, 1, "transcript", 0, 5),
                                ArtifactRecord(3, 1, "caption", 0, -1)>>)

\* ingest.py 377: the ids of the artifacts, in the order they were built
ArtifactIds == <<2, 3>>

EmbedInit ==
    /\ db = TwoArtifacts
    /\ nextId = MaxUuid(db) + 1
    /\ tmpfs = {}
    /\ nextTmp = 1
    /\ pc = "emb_call"
    /\ args \in [vectors : [1..Len(ArtifactIds) -> ReturnedVectors]]
    /\ loc = NoLocals
    /\ result = NoResult
    /\ raised = NoError
    /\ hist = NoHist

(* ingest.py 383-386: embed returned args.vectors; the batch is stored *)
EmbedWrite ==
    /\ pc = "emb_call"
    /\ LET items == Items(ArtifactIds, args.vectors)
       IN /\ db' = [db EXCEPT !.embeddings = @ \cup EmbeddingRows(items, nextId)]
          /\ nextId' = nextId + Len(items)
    /\ pc' = "emb_written"
    /\ UNCHANGED <<tmpfs, nextTmp, args, loc, result, raised, hist>>

(* repository.py 251-264: every row of the artifacts is unpacked with its  *)
(* dim; struct.error leaves the method when a row does not fit             *)
EmbedRead ==
    /\ pc = "emb_written"
    /\ LET rows == {e \in db.embeddings : e.artifact_id \in Range(ArtifactIds)}
           RowOf(a) == CHOOSE e \in rows : e.artifact_id = a
       IN IF \A e \in rows : struct_unpack(e.dim, e.vector).ok
          THEN /\ result' = [status |-> "vectors",
                             vectors |-> [a \in {e.artifact_id : e \in rows} |->
                                 struct_unpack(RowOf(a).dim, RowOf(a).vector).vec]]
               /\ raised' = raised
               /\ pc' = "emb_loaded"
          ELSE /\ raised' = [kind |-> "struct.error",
                             cause |-> "unpack requires a buffer"]
               /\ result' = result
               /\ pc' = "emb_raised"
    /\ UNCHANGED <<db, nextId, tmpfs, nextTmp, args, loc, hist>>

EmbedNext ==
    \/ EmbedWrite
    \/ EmbedRead

EmbedSpec == EmbedInit /\ [][EmbedNext]_vars

-----------------------------------------------------------------------------
(* migrate, schema.py 85-96, as Repository.__init__ calls it each time a   *)
(* repository is opened on the database file.  The database is the        *)
(* schema_version table (the versions recorded, in order of insertion) and *)
(* the scripts that were executed on it.  executescript runs its           *)
(* statements in autocommit mode, so a script that ran stays applied       *)
(* whether or not the INSERT and commit that follow it succeed.            *)

MaxMigrations == 2
MaxMigrateCalls == 3

\* get_schema_version, lines 74-82: MAX(version), 0 for an empty or missing table
get_schema_version(store) ==
    IF store.schema_version = <<>> THEN 0
    ELSE CHOOSE m \in Range(store.schema_version) :
             \A x \in Range(store.schema_version) : x <= m

\* a database on which the first v migrations ran and were recorded
MigratedTo(v) == [schema_version |-> [k \in 1..v |-> k], scripts |-> [k \in 1..v |-> k]]

\* lines 90-91: the migrations up to the stored version are passed over
NotPending(i, current) == i <= current

\* what one turn of the loop can meet: both statements succeed, the script
\* raises before it changed anything, or the script ran and the INSERT of
\* line 93 (or the commit) raises
MigrateOutcomes == {"ok", "script_error", "record_error"}

MigrateInit ==
    /\ \E n \in 1..MaxMigrations, v \in 0..MaxMigrations :
          /\ v <= n
          /\ db = MigratedTo(v)
          /\ args = [migrations |-> n]
    /\ nextId = 1
    /\ tmpfs = {}
    /\ nextTmp = 1
    /\ pc = "mig_closed"
    /\ loc = [current |-> 0, i |-> 0]
    /\ result = NoResult
    /\ raised = NoError
    /\ hist = [calls |-> 0, returned |-> 0, passed |-> {}]

(* line 87: a call begins by reading the stored version *)
MigrateCall ==
    /\ pc = "mig_closed"
    /\ hist.calls < MaxMigrateCalls
    /\ loc' = [current |-> get_schema_version(db), i |-> 1]
    /\ hist' = [hist EXCEPT !.calls = @ + 1, !.passed = {}]
    /\ result' = NoResult
    /\ raised' = NoError
    /\ pc' = "mig_loop"
    /\ UNCHANGED <<db, nextId, tmpfs, nextTmp, args>>

(* lines 88-94: one turn of the loop *)
MigrateStep ==
    /\ pc = "mig_loop"
    /\ loc.i <= args.migrations
    /\ IF NotPending(loc.i, loc.current)
       THEN /\ loc' = [loc EXCEPT !.i = @ + 1]
            /\ hist' = [hist EXCEPT !.passed = @ \cup {loc.i}]
            /\ UNCHANGED <<db, raised, pc>>
       ELSE \E o \in MigrateOutcomes :
            /\ db' = [schema_version |-> IF o = "ok"
                                         THEN Append(db.schema_version, loc.i)
                                         ELSE db.schema_version,
                      scripts |-> IF o = "script_error" THEN db.scripts
                                  ELSE Append(db.scripts, loc.i)]
            /\ IF o = "ok"
               THEN /\ loc' = [loc EXCEPT !.i = @ + 1]
                    /\ UNCHANGED <<raised, pc>>
               ELSE /\ raised' = [kind |-> "OperationalError", cause |-> o]
                    /\ pc' = "mig_closed"
                    /\ loc' = loc
            /\ hist' = hist
    /\ UNCHANGED <<nextId, tmpfs, nextTmp, args, result>>

(* line 96: the call returns the number of migrations *)
MigrateReturn ==
    /\ pc = "mig_loop"
    /\ loc.i > args.migrations
    /\ result' = [status |-> "migrated", version |-> args.migrations]
    /\ hist' = [hist EXCEPT !.returned = @ + 1]
    /\ pc' = "mig_closed"
    /\ UNCHANGED <<db, nextId, tmpfs, nextTmp, args, loc, raised>>

MigrateNext ==
    \/ MigrateCall
    \/ MigrateStep
    \/ MigrateReturn

MigrateSpec == MigrateInit /\ [][MigrateNext]_vars

-----------------------------------------------------------------------------
(* Properties of ingest_video *)

Finished == pc \in {"returned", "raised"}

\* the row of the store with that id
Row(store, id) == CHOOSE v \in store.videos : v.id = id

\* the rows stored, when the call began, under the fingerprint of its file
Prior == {v \in hist.store0.videos : v.file_hash = file_hash(args.path)}

\* the artifacts and embeddings the prior rows owned when the call began
PriorArtifacts == {x \in hist.store0.artifacts : \E v \in Prior : x.video_id = v.id}
PriorEmbeddings ==
    {e \in hist.store0.embeddings : \E x \in PriorArtifacts : e.artifact_id = x.id}

\* the call is past its idempotency check on a file whose fingerprint was
\* stored, with force off
SkipCase == pc \notin {"idle", "hash"} /\ PathExists(args.path)
               /\ ~args.force /\ Prior # {}

\* C1: without force, a call on a file whose fingerprint matches a stored
\* video returns status skipped with that video's id, leaves the videos,
\* artifacts and embeddings as they were, and neither probes the media nor
\* calls a capability.
C1_SkipLeavesStore ==
    SkipCase =>
        /\ pc = "returned"
        /\ result.status = "skipped"
        /\ \E v \in Prior : result.video_id = v.id
        /\ db = hist.store0
        /\ ~hist.probed
        /\ hist.capCalled = {}

C1_Witness == SkipCase /\ pc = "returned" /\ PriorArtifacts # {} /\ PriorEmbeddings # {}

\* the call is a force ingest of a file whose fingerprint was stored, past
\* its idempotency check
ForceCase == pc \notin {"idle", "hash"} /\ PathExists(args.path)
                /\ args.force /\ Prior # {}

\* C2: in a force ingest of a file whose fingerprint matches a stored
\* video, the prior row, its artifacts and its embeddings are gone from the
\* idempotency check on (so before the new row is inserted); once the new
\* row is inserted it has another id than the prior one and is the only row
\* with that fingerprint.
C2_ForceReplaces ==
    ForceCase =>
        /\ \A v \in Prior : \A w \in db.videos : w.id # v.id
        /\ \A x \in db.artifacts : \A v \in Prior : x.video_id # v.id
        /\ \A x \in PriorArtifacts : \A y \in db.artifacts : y.id # x.id
        /\ \A e \in PriorEmbeddings : \A f \in db.embeddings :
              f.id # e.id /\ f.artifact_id # e.artifact_id
        /\ hist.inserted =>
              /\ \A v \in Prior : loc.video_id # v.id
              /\ {w.id : w \in {w \in db.videos : w.file_hash = file_hash(args.path)}}
                    = {loc.video_id}

C2_Witness ==
    ForceCase /\ hist.inserted /\ pc = "returned"
       /\ PriorArtifacts # {} /\ PriorEmbeddings # {}

\* C3: a call with dry_run set performs no database write: the store is
\* at every moment what it was when the call began.
C3_DryRunWritesNothing ==
    (pc # "idle" /\ args.dry_run) => db = hist.store0

\* a call that went through finalization and returned its result dict
Completed == pc = "returned" /\ result.status \in {"complete", "complete_with_warnings"}

\* C4: after a finalization without fatal error the status stored on the
\* row is complete if no warning was recorded and complete_with_warnings
\* otherwise.
C4_StoredStatusTellsWarnings ==
    Completed =>
        Row(db, loc.video_id).status =
            IF loc.warnings = <<>> THEN "complete" ELSE "complete_with_warnings"

\* the stages that record a warning because their capability is not configured
Disabled ==
    (IF ~args.transcribe_model THEN {"transcribe"} ELSE {})
    \cup (IF ~args.no_embed /\ ~args.embed_model THEN {"embed"} ELSE {})

\* C5: the result of a finished ingest has status complete_with_warnings
\* exactly when a warning was recorded (a stage failed or was disabled), else
\* complete, and carries the warnings list exactly when it is non-empty.
C5_ResultTellsWarnings ==
    Completed =>
        /\ (result.status = "complete_with_warnings") <=> (loc.warnings # <<>>)
        /\ (result.status = "complete") <=> (loc.warnings = <<>>)
        /\ (loc.warnings # <<>>) <=> (hist.stageFailed \cup Disabled # {})
        /\ ("warnings" \in DOMAIN result) <=> (loc.warnings # <<>>)
        /\ "warnings" \in DOMAIN result => result.warnings = loc.warnings

C5_Witness ==
    /\ Completed
    /\ result.status = "complete_with_warnings"
    /\ hist.stageFailed # {}
    /\ Len(result.warnings) >= 2

\* the stages the options of the call ask for
Asked ==
    {"transcribe"}
    \cup (IF args.captions THEN {"cascade"} ELSE {})
    \cup (IF args.frame_captions THEN {"frames"} ELSE {})
    \cup (IF args.dense_vision THEN {"dense"} ELSE {})
    \cup (IF ~args.no_embed THEN {"embed"} ELSE {})

\* C6: once the row is inserted, whatever stages fail, every stage asked
\* for is entered and the call returns a result with status complete or
\* complete_with_warnings; the only exception that reaches the caller is the
\* store's refusal of the final status write, never a stage's failure.
C6_StageFailuresStayInside ==
    /\ (hist.inserted /\ pc \in {"finalize", "fatal", "returned", "raised"})
          => Asked \subseteq hist.ran
    /\ (hist.inserted /\ pc = "returned") => Completed
    /\ (hist.inserted /\ pc \in {"fatal", "raised"}) => loc.exc = "database is locked"
    /\ (hist.inserted /\ pc = "raised") => raised.cause = "database is locked"

C6_Witness ==
    /\ Completed
    /\ hist.stageFailed = {"transcribe", "cascade", "frames", "dense", "embed"}

\* C7: a failed transcription, captioning or embedding capability call is
\* recorded as a warning: the result has status complete_with_warnings and
\* a non-empty warnings list.
C7_CapabilityFailureWarns ==
    (Completed /\ hist.capFailed \cap {"transcribe", "caption", "embed"} # {}) =>
        /\ result.status = "complete_with_warnings"
        /\ "warnings" \in DOMAIN result
        /\ result.warnings # <<>>

Terminal == {"complete", "complete_with_warnings", "error"}

\* what a step may do to the rows: a new row is pending; a row's status
\* changes only from pending to a terminal value, only on the row of the
\* call, and nothing but status and error_message ever changes
C9_Step ==
    /\ \A w \in db'.videos :
          (\A v \in db.videos : v.id # w.id) => w.status = "pending"
    /\ \A v \in db.videos : \A w \in db'.videos :
          v.id = w.id =>
             /\ [w EXCEPT !.status = v.status, !.error_message = v.error_message] = v
             /\ (v.status = w.status => v.error_message = w.error_message)
             /\ (v.status # w.status =>
                    /\ v.status = "pending"
                    /\ w.status \in Terminal
                    /\ v.id = loc.video_id
                    /\ hist'.statusWrites = 1)

\* where the row of the call stands: untouched and pending until the one
\* status write, terminal after it
C9_State ==
    hist.inserted =>
        /\ pc \in {"transcribe", "cascade", "frames", "dense", "embed", "finalize", "fatal"}
              => /\ hist.statusWrites = 0
                 /\ Row(db, loc.video_id) =
                       VideoRecord(loc.video_id, args.path, loc.fhash, loc.duration_sec)
        /\ Finished => /\ hist.statusWrites = 1
                       /\ Row(db, loc.video_id).status \in Terminal

C10_TempRemoved ==
    Finished => \A t \in hist.created : t.kind \in {"audio", "frames"} => t \notin tmpfs

\* the warnings list of the call holds that message
HasWarning(msg) == \E i \in 1..Len(loc.warnings) : loc.warnings[i] = msg

\* the call is past its last stage
PastStages == hist.inserted /\ pc \in {"finalize", "fatal", "returned", "raised"}

\* C11: in one ingest call at most one of the two captioning modes runs:
\* the caption cascade and per-frame captioning are never both entered.
C11_OneCaptionMode == ~({"cascade", "frames"} \subseteq hist.ran)

\* C12: a stage whose capability is not configured is not attempted and
\* is reported: without a transcription model no audio is extracted, no
\* transcriber is called and a warning is recorded; without an embedding
\* model, embedding not disabled, no embedder is called and a warning is
\* recorded; with embedding disabled no embedder is called and no embedding
\* warning is recorded.
C12_UnconfiguredNotAttempted ==
    /\ (hist.inserted /\ pc # "transcribe" /\ ~args.transcribe_model) =>
          /\ \A t \in hist.created : t.kind # "audio"
          /\ "transcribe" \notin hist.capCalled
          /\ HasWarning("Transcription disabled")
    /\ (PastStages /\ ~args.no_embed /\ ~args.embed_model) =>
          /\ "embed" \notin hist.capCalled
          /\ HasWarning("Embeddings disabled")
          /\ db.embeddings \subseteq hist.store0.embeddings
    /\ (PastStages /\ args.no_embed) =>
          /\ "embed" \notin hist.capCalled
          /\ ~HasWarning("Embeddings disabled")
          /\ ~HasWarning("Embeddings skipped")
          /\ db.embeddings \subseteq hist.store0.embeddings

C12_Witness ==
    /\ Completed
    /\ ~args.transcribe_model /\ ~args.no_embed /\ ~args.embed_model
    /\ loc.caption_artifacts # <<>>
    /\ result.warnings = <<"Transcription disabled", "Embeddings disabled">>

\* the artifacts stored for the video of the call
Mine == {x \in db.artifacts : x.video_id = loc.video_id}

\* the call finished with embedding on, configured, and no embedding warning
EmbeddedCleanly ==
    /\ Completed
    /\ ~args.no_embed /\ args.embed_model
    /\ ~HasWarning("Embeddings disabled") /\ ~HasWarning("Embeddings skipped")

-----------------------------------------------------------------------------
(* Properties of run_cascade *)

CascadeDone == pc \in {"cascade_returned", "cascade_raised"}

\* chunks of the call, and those whose time range is not empty
CallChunks == DOMAIN args.raw
CallStart(i) == i * args.chunk_duration_sec
CallEnd(i) ==
    IF (i + 1) * args.chunk_duration_sec <= args.duration_sec
    THEN (i + 1) * args.chunk_duration_sec
    ELSE args.duration_sec

\* the layer-0 records returned for chunk i
RecordsOf(i) ==
    {k \in 1..Len(result.l0) : result.l0[k].start_sec = CallStart(i)}

\* chunk i had frames and its captioning call returned a reply
Replied(i) == args.raw[i] \in Replies /\ CallStart(i) < args.duration_sec

\* chunk i's reply is a caption: not empty and not the sentinel
Captioned(i) ==
    Replied(i) /\ args.raw[i] \notin {"", "STATIC", " static "}

\* C14: in every result of the cascade a layer-2 artifact exists only if
\* a layer-1 artifact does and a layer-1 artifact only if a layer-0 artifact
\* does; with layer 0 empty chat is never called, with layer 1 empty the
\* layer-2 call is never made.
C14_LayersNeedInput ==
    CascadeDone =>
        /\ result.l2 # <<>> => result.l1 # <<>>
        /\ result.l1 # <<>> => result.l0 # <<>>
        /\ result.l0 = <<>> => (result.summarize = {} /\ "chat" \notin hist.capCalled)
        /\ result.l1 = <<>> => "layer2" \notin result.summarize

C14_Witness ==
    /\ pc = "cascade_returned"
    /\ result.l0 = <<>> /\ result.l1 = <<>> /\ result.l2 = <<>>
    /\ args.l1o = "summary" /\ args.l2o = "report"
    /\ \E i \in CallChunks : args.raw[i] = "STATIC"

\* C15: a failure at a later layer discards nothing: when the layer-1
\* call fails or returns the no-events sentinel, run_cascade returns the
\* caption of every captioned chunk with layers 1 and 2 empty; when the
\* layer-2 call fails it returns those captions and the summary, with layer
\* 2 empty.
C15_LaterFailureKeepsEarlier ==
    (CascadeDone /\ args.clientOk /\ \E i \in CallChunks : Captioned(i)) =>
        /\ pc = "cascade_returned"
        /\ Len(result.l0) = Cardinality({i \in CallChunks : Captioned(i)})
        /\ \A i \in CallChunks : Captioned(i) =>
              \E k \in RecordsOf(i) :
                 /\ result.l0[k].type = "caption"
                 /\ result.l0[k].end_sec = CallEnd(i)
        /\ args.l1o \in {"error", "no_events"} =>
              (result.l1 = <<>> /\ result.l2 = <<>>)
        /\ (args.l1o = "summary" /\ args.l2o = "error") =>
              /\ Len(result.l1) = 1
              /\ result.l1[1].type = "summary"
              /\ result.l2 = <<>>

C15_Witness ==
    /\ pc = "cascade_returned"
    /\ args.l1o = "error"
    /\ Len(result.l0) >= 2

\* what holds of the chunks of a call with a positive duration
ChunksPartition ==
    LET n == Len(result.spans)
        c == args.chunk_duration_sec
        D == args.duration_sec
    IN /\ n * c >= D /\ (n - 1) * c < D
       /\ Cardinality(hist.created) = n
       /\ \A i \in 1..n :
             /\ result.spans[i] = <<CallStart(i - 1), CallEnd(i - 1)>>
             /\ result.spans[i][2] > result.spans[i][1]
       /\ result.spans[1][1] = 0
       /\ result.spans[n][2] = D
       /\ \A i \in 1..(n - 1) : result.spans[i + 1][1] = result.spans[i][2]

\* C16 as stated: for every duration D >= 0 and chunk duration c > 0,
\* layer 0 goes through exactly ceil(D / c) chunks, chunk i spans i*c to
\* min((i+1)*c, D), the last chunk ends at D, every chunk ends after it
\* starts, and consecutive chunks neither overlap nor leave a gap.
C16_AsStated ==
    (pc = "cascade_returned") =>
        /\ Len(result.spans) * args.chunk_duration_sec >= args.duration_sec
        /\ (Len(result.spans) - 1) * args.chunk_duration_sec < args.duration_sec
        /\ \A i \in 1..Len(result.spans) :
              /\ result.spans[i] = <<CallStart(i - 1), CallEnd(i - 1)>>
              /\ result.spans[i][2] > result.spans[i][1]

\* C16: for every duration D > 0 and chunk duration c > 0, layer 0 goes
\* through exactly ceil(D / c) chunks, chunk i spans i*c to min((i+1)*c, D),
\* the last chunk ends at D, every chunk ends after it starts and
\* consecutive chunks neither overlap nor leave a gap; for D = 0 it goes
\* through one empty chunk from 0 to 0, which yields no artifact.
C16_ChunksPartition ==
    (pc = "cascade_returned") =>
        /\ args.duration_sec > 0 => ChunksPartition
        /\ args.duration_sec = 0 =>
              /\ result.spans = << <<0, 0>> >>
              /\ result.l0 = <<>>

C16_Witness ==
    /\ pc = "cascade_returned"
    /\ Len(result.spans) = 3
    /\ result.spans[3][2] - result.spans[3][1] < args.chunk_duration_sec
    /\ Len(result.l0) = 3

\* C17 as stated: a chunk whose captioning call returns a reply yields no
\* artifact if the reply, trimmed and case-normalized, is STATIC, and
\* otherwise exactly one caption artifact spanning the chunk.
C17_AsStated ==
    (pc = "cascade_returned") =>
        \A i \in CallChunks : Replied(i) =>
            IF Upper(Strip(args.raw[i])) = "STATIC"
            THEN RecordsOf(i) = {}
            ELSE /\ Cardinality(RecordsOf(i)) = 1
                 /\ \A k \in RecordsOf(i) :
                       /\ result.l0[k].type = "caption"
                       /\ result.l0[k].end_sec = CallEnd(i)

\* C17: a chunk whose captioning call returns a reply yields no artifact
\* if the reply is empty or, trimmed and case-normalized, is STATIC, and
\* otherwise exactly one caption artifact spanning the chunk.
C17_StaticDropped ==
    (pc = "cascade_returned") =>
        \A i \in CallChunks : Replied(i) =>
            IF args.raw[i] = "" \/ Upper(Strip(args.raw[i])) = "STATIC"
            THEN RecordsOf(i) = {}
            ELSE /\ Cardinality(RecordsOf(i)) = 1
                 /\ \A k \in RecordsOf(i) :
                       /\ result.l0[k].type = "caption"
                       /\ result.l0[k].end_sec = CallEnd(i)

C17_Witness ==
    /\ pc = "cascade_returned"
    /\ \E i, j, k \in CallChunks :
          /\ args.raw[i] = " static " /\ args.raw[j] = "STATIC scene"
          /\ args.raw[k] = ""
          /\ RecordsOf(i) = {} /\ RecordsOf(j) # {} /\ RecordsOf(k) = {}

\* some chunk of the call met an exception
ChunkFailed(i) == args.raw[i] \in {"extract_error", "caption_error"}

\* C18: an exception in one chunk touches that chunk only: every chunk is
\* still gone through, every captioned chunk has its artifact, and the
\* layer-0 artifacts come back in chunk order.
C18_ChunkFailureIsLocal ==
    (CascadeDone /\ args.clientOk /\ \E i \in CallChunks : ChunkFailed(i)) =>
        /\ pc = "cascade_returned"
        /\ Cardinality(hist.created) = Cardinality(CallChunks)
        /\ \A i \in CallChunks : ChunkFailed(i) => RecordsOf(i) = {}
        /\ \A i \in CallChunks : Captioned(i) => Cardinality(RecordsOf(i)) = 1
        /\ \A k \in 1..(Len(result.l0) - 1) :
              result.l0[k].start_sec < result.l0[k + 1].start_sec

C18_Witness ==
    /\ pc = "cascade_returned"
    /\ Cardinality(CallChunks) = 3
    /\ Captioned(0) /\ args.raw[1] = "caption_error" /\ Captioned(2)
    /\ Len(result.l0) = 2

\* C19: when run_cascade ends, by returning or by raising, every temp
\* frame directory made for a chunk during the run has been removed.
C19_ChunkDirsRemoved ==
    CascadeDone => \A t \in hist.created : t \notin tmpfs

-----------------------------------------------------------------------------
(* Properties of _transcribe_with_chunking *)

TwcDone == pc \in {"twc_returned", "twc_raised"}

\* the call went into the loop over its chunks
TwcChunked == loc.chunks > 0

\* the number of entries the segments that succeeded returned
RECURSIVE EntriesOf(_)
EntriesOf(h) ==
    IF h = <<>> THEN 0
    ELSE (IF h[Len(h)].tr.ok THEN h[Len(h)].tr.k ELSE 0)
         + EntriesOf(SubSeq(h, 1, Len(h) - 1))

\* C20: in chunked transcription a segment whose transcription call
\* fails does not abort the others: every remaining segment is still
\* transcribed and the entries of the segments that succeeded are in the
\* merged result.
C20_SegmentFailureIsLocal ==
    (TwcDone /\ TwcChunked
       /\ \E k \in 1..Len(hist) : ~hist[k].tr.ok /\ k < loc.chunks) =>
        /\ Len(hist) = loc.chunks
        /\ result.status = "segments"
        /\ Len(result.segments) = EntriesOf(hist)

\* C21: whenever chunked transcription has created its segment directory,
\* the directory is gone when chunked transcription ends, whether a
\* segment's transcription failed or not.
C21_SegmentDirRemoved ==
    (TwcDone /\ loc.dir # 0) => SplitDir(loc.dir) \notin tmpfs

\* the time the segments before segment k took: as the code measured it
\* (ch_dur), or as the chunks really last (d)
RECURSIVE Elapsed(_, _, _)
Elapsed(h, k, measured) ==
    IF k <= 1 THEN 0
    ELSE (IF measured THEN h[k - 1].ch_dur ELSE h[k - 1].d)
         + Elapsed(h, k - 1, measured)

\* entry j of segment k, as the transcriber returned it and as it is merged
ReturnedEntry(k, j) == SegmentEntries(hist[k].tr.k, hist[k].d)[j]
MergedEntry(k, j) == result.segments[EntriesOf(SubSeq(hist, 1, k - 1)) + j]

ShiftedBy(k, j, off) ==
    /\ MergedEntry(k, j).start_sec = ReturnedEntry(k, j).start_sec + off
    /\ MergedEntry(k, j).end_sec = ReturnedEntry(k, j).end_sec + off

TwcMerged == pc = "twc_returned" /\ TwcChunked

StartsInOrder(q) ==
    \A i \in 1..(Len(q) - 1) : q[i].start_sec <= q[i + 1].start_sec

NoEntryOverlaps(q) ==
    \A i \in 1..(Len(q) - 1) : q[i].end_sec <= q[i + 1].start_sec

-----------------------------------------------------------------------------
(* Properties of the store *)

StoreOpen == pc = "store_open"

RefsHold(store) ==
    /\ \A a \in store.artifacts : \E v \in store.videos : v.id = a.video_id
    /\ \A e \in store.embeddings : \E a \in store.artifacts : a.id = e.artifact_id

ArtifactsOf(store, video_id) == {a \in store.artifacts : a.video_id = video_id}
EmbeddingsOf(store, video_id) ==
    {e \in store.embeddings :
        \E a \in ArtifactsOf(store, video_id) : a.id = e.artifact_id}

\* C23: in every state of the store every artifact refers to an existing
\* video and every embedding to an existing artifact; after delete_video(v)
\* no artifact of v and no embedding of an artifact of v remains, and the
\* rows of the other videos are as they were.
C23_DeleteCascades ==
    StoreOpen =>
        /\ RefsHold(db)
        /\ RefsHold(hist.durable)
        /\ args.op = "delete_video" =>
            /\ ~\E v \in db.videos : v.id = args.id
            /\ ~\E a \in db.artifacts : a.video_id = args.id
            /\ ~\E e \in db.embeddings :
                   \E a \in ArtifactsOf(hist.before, args.id) : a.id = e.artifact_id
            /\ db.videos = {v \in hist.before.videos : v.id # args.id}
            /\ db.artifacts = hist.before.artifacts \ ArtifactsOf(hist.before, args.id)
            /\ db.embeddings = hist.before.embeddings \ EmbeddingsOf(hist.before, args.id)
            /\ hist.durable = db

\* a video with an artifact and an embedding was deleted while another
\* video has an artifact and an embedding
C23_Witness ==
    /\ StoreOpen
    /\ args.op = "delete_video"
    /\ EmbeddingsOf(hist.before, args.id) # {}
    /\ \E v \in db.videos : EmbeddingsOf(db, v.id) # {}

IndexMatches(store) ==
    /\ \A a \in store.artifacts : CopiesIn(FtsEntry(a), store.fts) = 1
    /\ \A e \in BagToSet(store.fts) : \E a \in store.artifacts : e = FtsEntry(a)

\* C24: after every store operation the lexical index holds exactly one
\* entry per existing artifact, with the artifact's current text, and no
\* entry of a deleted artifact.
C24_IndexInLockstep ==
    StoreOpen => IndexMatches(db) /\ IndexMatches(hist.durable)

\* a video was deleted with its artifact after the text of another
\* video's artifact was updated
C24_Witness ==
    /\ StoreOpen
    /\ args.op = "delete_video"
    /\ ArtifactsOf(hist.before, args.id) # {}
    /\ \E a \in db.artifacts : a.text = "dog"

StoredIds(store) ==
    {a.id : a \in store.artifacts} \cup {e.id : e \in store.embeddings}

\* C25: a batch insert is atomic: whatever operation follows, either every
\* row of the batch is stored or none is, also when the insert fails on a
\* row in the middle of the batch.
C25_BatchesAtomic ==
    StoreOpen =>
        /\ hist.partial \cap StoredIds(hist.durable) = {}
        /\ (args.op \in {"insert_artifacts_batch", "insert_embeddings_batch"}
              /\ raised = NoError) =>
                \A i \in 0..(args.n - 1) : (args.id + i) \in StoredIds(hist.durable)

OnePerHash(store) ==
    \A v, w \in store.videos : v.file_hash = w.file_hash => v = w

\* C26: the store holds at most one video row per content fingerprint;
\* inserting a video whose fingerprint is already stored raises
\* DatabaseError and leaves the store unchanged.
C26_OneRowPerFingerprint ==
    StoreOpen =>
        /\ OnePerHash(db)
        /\ OnePerHash(hist.durable)
        /\ (args.op = "insert_video"
              /\ \E v \in hist.before.videos : v.file_hash = args.file_hash) =>
                /\ raised.kind = "DatabaseError"
                /\ db = hist.before
                /\ hist.durable = hist.durableBefore

C26_Witness ==
    /\ StoreOpen
    /\ args.op = "insert_video"
    /\ \E v \in hist.before.videos : v.file_hash = args.file_hash
    /\ raised.kind = "DatabaseError"
    /\ Cardinality(db.videos) = 2

-----------------------------------------------------------------------------
(* Properties of search *)

SearchReturned == pc = "search_returned"

\* the candidates of the lexical phase and the results returned, by artifact
Candidates == {loc.fts_results[i].artifact_id : i \in 1..Len(loc.fts_results)}
Returned == {result.results[i].artifact_id : i \in 1..Len(result.results)}
Lacking == {a \in Candidates : ~args.emb[a].stored}

\* the similarity a candidate is ranked by
SimOf(a) == IF args.emb[a].stored THEN args.emb[a].sim ELSE 0

\* the vector rerank took place
DidRerank == SearchReturned /\ hist.reply = "vector"

\* C27: in the vector rerank, when only some candidates have a stored
\* embedding, every candidate without one gets score exactly 0.0 and stays
\* in the ranking: the result has min(limit, number of candidates) entries
\* and a candidate without embedding is missing from it only when limit
\* candidates rank before it.
C27_MissingEmbeddingScoresZero ==
    (DidRerank /\ Lacking # {} /\ Lacking # Candidates) =>
        /\ Len(result.results) = Min(args.limit, Len(loc.fts_results))
        /\ \A i \in 1..Len(result.results) :
               result.results[i].artifact_id \in Lacking =>
                   result.results[i].score = 0
        /\ \A a \in Lacking \ Returned :
               /\ Len(result.results) = args.limit
               /\ \A b \in Returned : SimOf(b) > 0 \/ (SimOf(b) = 0 /\ b < a)

\* a candidate without embedding is returned ahead of one whose embedding
\* has a similarity below zero
C27_Witness ==
    /\ DidRerank
    /\ Lacking # {} /\ Lacking # Candidates
    /\ \E i \in 1..Len(result.results) :
          /\ result.results[i].artifact_id \in Lacking
          /\ result.results[i].rank = i
          /\ \E b \in Candidates \ Lacking :
                /\ SimOf(b) < 0
                /\ \A j \in 1..i : result.results[j].artifact_id # b

\* C28: after a vector rerank the results are the limit candidates of
\* highest similarity, in descending order (no result has a higher score
\* than one listed before it); on every path of search the results carry
\* the ranks 1..k in list order.
C28_RerankOrder ==
    SearchReturned =>
        /\ \A i \in 1..Len(result.results) : result.results[i].rank = i
        /\ DidRerank =>
            /\ Len(result.results) = Min(args.limit, Len(loc.fts_results))
            /\ Returned \subseteq Candidates
            /\ Cardinality(Returned) = Len(result.results)
            /\ \A i, j \in 1..Len(result.results) : i < j =>
                   /\ result.results[i].score >= result.results[j].score
                   /\ SimOf(result.results[i].artifact_id)
                          >= SimOf(result.results[j].artifact_id)
            /\ \A a \in Candidates \ Returned : \A b \in Returned :
                   SimOf(a) <= SimOf(b)

\* the rerank changed the order and cut the list
C28_Witness ==
    /\ DidRerank
    /\ Len(loc.fts_results) > args.limit
    /\ Len(result.results) >= 2
    /\ result.results[1].artifact_id # 1
    /\ result.results[1].score > result.results[2].score

\* no vector rerank can be made: no candidate has a stored embedding, or
\* embedding the query or computing the similarity failed
FellBack ==
    /\ SearchReturned
    /\ loc.fts_results # <<>>
    /\ Lacking = Candidates \/ hist.reply \in {"raise", "bad_vector"}

\* C29: when no candidate has a stored embedding, or embedding the query
\* or computing similarity fails, search does not raise and returns the
\* first limit lexical candidates, in lexical order, with their lexical
\* ranks and scores.
C29_FallbackIsLexical ==
    FellBack =>
        /\ raised = NoError
        /\ Len(result.results) = Min(args.limit, Len(loc.fts_results))
        /\ \A i \in 1..Len(result.results) :
               result.results[i] = loc.fts_results[i]
        /\ result.total_results = Len(result.results)

\* the embedding capability failed with more candidates than limit
C29_Witness ==
    /\ FellBack
    /\ hist.reply = "raise"
    /\ Len(loc.fts_results) > args.limit
    /\ Len(result.results) = args.limit

\* C30: with zero lexical hits search returns an empty list with total 0
\* without entering the vector phase; the embedding capability is invoked
\* at most once per call, and only when a candidate has a stored embedding.
C30_VectorPhaseOnlyWhenUseful ==
    /\ hist.embedCalls <= 1
    /\ hist.embedCalls = 1 => Lacking # Candidates
    /\ (SearchReturned /\ args.hits = 0) =>
        /\ result.results = <<>>
        /\ result.total_results = 0
        /\ hist.loaded = 0
        /\ hist.embedCalls = 0

\* a search without hits has returned
C30_Witness ==
    /\ SearchReturned
    /\ args.hits = 0
    /\ result.total_results = 0
    /\ hist.embedCalls = 0

\* the lexical phase is over
LexicalDone == pc \notin {"search_call"}

\* C31: the lexical phase returns at most 3*limit candidates, ranked by the
\* relevance score of the full-text index, when the search is unrestricted
\* and when it is restricted to one video.
C31_LexicalCandidates ==
    LexicalDone =>
        /\ pc # "search_raised"
        /\ Len(loc.fts_results) = Min(args.hits, 3 * args.limit)
        /\ \A i \in 1..Len(loc.fts_results) :
               /\ loc.fts_results[i].rank = i
               /\ loc.fts_results[i].artifact_id = i
        /\ \A i, j \in 1..Len(loc.fts_results) : i < j =>
               FtsRank(loc.fts_results[i].artifact_id)
                   <= FtsRank(loc.fts_results[j].artifact_id)

\* C38: for every limit >= 1 and every outcome of the embedding capability
\* (a vector, an empty list, a failure) search returns at most limit
\* results and total_results is the number of results returned.
C38_AtMostLimit ==
    SearchReturned =>
        /\ Len(result.results) <= args.limit
        /\ result.total_results = Len(result.results)

-----------------------------------------------------------------------------
(* Properties of ask *)

AskReturned == pc = "ask_returned"

\* C32: when retrieval returns zero hits, ask returns the fixed
\* no-relevant-content answer, an empty citation list and confidence 0.0,
\* and the chat capability is not invoked.
C32_NoHitsNoChat ==
    /\ hist.chatCalls <= 1
    /\ (pc \in {"ask_returned", "ask_raised"} /\ raised.kind # "OperationalError"
          /\ loc.results = <<>>) =>
            /\ pc = "ask_returned"
            /\ result.answer = NoContent
            /\ result.citations = <<>>
            /\ result.confidence = 0
            /\ hist.chatCalls = 0

C32_Witness ==
    /\ AskReturned
    /\ args.hits = 0
    /\ loc.results = <<>>
    /\ result.answer = NoContent

\* C33: with at least one hit the confidence ask returns is the top hit's
\* score (to two decimal places) clamped to at most 1.0, also when that
\* score is 0; the neutral default 0.5 is returned only when no numeric
\* score is available.
C33_ConfidenceIsTopScore ==
    (AskReturned /\ loc.results # <<>>) =>
        LET top == loc.results[1].score
            places == (top \div 1000) * 1000
            nearest == IF 2 * (top - places) > 1000
                          \/ (2 * (top - places) = 1000 /\ (top \div 1000) % 2 = 1)
                       THEN places + 1000 ELSE places
        IN result.confidence = (IF nearest > ONE THEN ONE ELSE nearest)

-----------------------------------------------------------------------------
(* Further properties of ingest_video *)

\* the call ended in an exception raised before the Video row was inserted:
\* the path is no file (lines 114-117) or the probe failed (line 137)
FailedBeforeRow ==
    /\ pc = "raised"
    /\ ~hist.inserted
    /\ raised.kind \in {"IngestError", "FFmpegError"}

\* C37: a call that fails before it inserts its Video row leaves the store
\* exactly as it was when the call began, also when force is set and a
\* video with the same fingerprint is stored.
C37_EarlyFailureLeavesStore ==
    FailedBeforeRow => db = hist.store0

\* what count_artifacts (repository.py 172-176) returns for a video
count_artifacts(store, video_id) ==
    Cardinality({x \in store.artifacts : x.video_id = video_id})

\* C39: when a call returns complete or complete_with_warnings, the
\* artifacts_count of its result is the number of artifact rows the store
\* holds for the returned video id, whichever stages ran, failed or were
\* skipped.
C39_CountMatchesStore ==
    Completed => result.artifacts_count = count_artifacts(db, result.video_id)

C39_Witness ==
    /\ Completed
    /\ result.artifacts_count >= 2
    /\ {"cascade", "frames"} \subseteq hist.ran
    /\ hist.stageFailed # {}
    /\ result.artifacts_count = count_artifacts(db, result.video_id)

\* C34: every artifact the store holds has an end time that is absent or
\* not before its start time, whatever the transcription capability
\* returned.
C34_EndNotBeforeStart ==
    \A x \in db.artifacts : x.end_sec = -1 \/ x.end_sec >= x.start_sec

\* C40: without force, a call on a file whose fingerprint matches a stored
\* video returns skipped whatever the status of that video; a video left
\* pending or error is not processed again and its row, status included,
\* stays as it was.
C40_UnfinishedIsSkipped ==
    (pc # "idle" /\ PathExists(args.path) /\ ~args.force) =>
        \A v \in Prior :
            /\ pc \in {"hash", "returned"}
            /\ pc = "returned" => result = SkippedDict(v.id)
            /\ v \in db.videos
            /\ hist.ran = {} /\ ~hist.probed /\ ~hist.inserted

C40_Witness ==
    /\ pc = "returned"
    /\ ~args.force
    /\ result.status = "skipped"
    /\ \E v \in db.videos : v.id = result.video_id /\ v.status = "error"
                                /\ v.error_message # "NULL"

\* the same for a video left pending
C40_WitnessPending ==
    /\ pc = "returned"
    /\ ~args.force
    /\ result.status = "skipped"
    /\ \E v \in db.videos : v.id = result.video_id /\ v.status = "pending"

-----------------------------------------------------------------------------
(* Properties of the stored embedding vectors *)

\* the vector embed returned for an artifact
Original(a) == args.vectors[CHOOSE i \in 1..Len(ArtifactIds) : ArtifactIds[i] = a]

\* every row written records as dim the number of values packed for it,
\* which is the length of the vector it was made from
DimIsLength ==
    /\ pc # "emb_raised"
    /\ \A e \in db.embeddings :
          e.dim = Len(e.vector) /\ e.dim = Len(Original(e.artifact_id))

EmbedLoaded == pc = "emb_loaded"

\* C35 as stated: unpacking with the recorded dimension gives back the
\* original vector, same length and same values in the same order.
C35_AsStated ==
    /\ DimIsLength
    /\ EmbedLoaded =>
          \A a \in DOMAIN result.vectors : result.vectors[a] = Original(a)

\* C35: for every embedding written, the recorded dimension is the number
\* of values packed, unpacking with it succeeds, and the vector read back
\* has the length and order of the original, each value being the
\* original rounded to single precision.
C35_RoundTripToSingle ==
    /\ DimIsLength
    /\ EmbedLoaded =>
          /\ DOMAIN result.vectors = Range(ArtifactIds)
          /\ \A a \in DOMAIN result.vectors :
                /\ Len(result.vectors[a]) = Len(Original(a))
                /\ \A i \in 1..Len(Original(a)) :
                      result.vectors[a][i] = Float32(Original(a)[i])

C35_Witness ==
    /\ EmbedLoaded
    /\ Len(Original(2)) = 2 /\ Len(Original(3)) = 1
    /\ Original(2)[1] # Original(2)[2]
    /\ result.vectors[2] # Original(2)
    /\ result.vectors[3] = Original(3)

-----------------------------------------------------------------------------
(* Properties of migrate *)

\* how many times k occurs in a sequence
Occurrences(q, k) == Cardinality({j \in 1..Len(q) : q[j] = k})

Increasing(q) == \A j \in 1..(Len(q) - 1) : q[j] < q[j + 1]

\* C36: over any number of migrate calls on the same database every
\* migration is applied at most once, in list order, and recorded at most
\* once; once a call has returned, every migration of the list has been
\* applied and recorded exactly once, and a further call applies and
\* records nothing.
C36_EachMigrationOnce ==
    /\ Increasing(db.scripts)
    /\ Increasing(db.schema_version)
    /\ hist.returned > 0 =>
          /\ db.scripts = [k \in 1..args.migrations |-> k]
          /\ db.schema_version = db.scripts

====
